---------------------------- MODULE Spec2Model ----------------------------
(***************************************************************************)
(* A model of the retrieval-augmented chat backend of hushh-chatbot:       *)
(* backend/rag_service.py (RAGService) and the chat endpoints of           *)
(* backend/app.py that drive it, with the chat history and the sessions   *)
(* of backend/database.py.                                                 *)
(*                                                                         *)
(* Text is a sequence of atoms.  An atom is the single space " ", the      *)
(* single newline "\n", or a non-empty run of characters that contains     *)
(* neither; the string a text stands for is the concatenation of its       *)
(* atoms.  Titles, categories and contents of documents are written one    *)
(* character per atom, so Len is len() on them.                            *)
(*                                                                         *)
(* A similarity is the exact rational <<num, den>> (den > 0) of the        *)
(* quotient the code computes in floating point; the document vectors are  *)
(* chosen with integer norms so that the quotient is exact.                *)
(***************************************************************************)
EXTENDS Integers, Sequences, FiniteSets, TLC

(***************************************************************************)
(* Bounds of the model.                                                    *)
(***************************************************************************)
MaxDocs == 3        \* longest document list handed to retrieve_relevant_context
MaxTopK == 3        \* largest top_k tried
MaxNegTopK == 1     \* top_k ranges over -MaxNegTopK .. MaxTopK
MaxNorm == 5        \* largest vector norm of the pool

(***************************************************************************)
(* Program constants.                                                      *)
(***************************************************************************)
DEFAULT_TOP_K == 3
PREVIEW_LEN == 300

DEFAULT_THRESHOLD == <<3, 10>>      \* threshold: float = 0.3

(***************************************************************************)
(* Sequence helpers.                                                       *)
(***************************************************************************)
(* the concatenation of the texts ss[lo..hi], by halves *)
RECURSIVE ConcatRange(_, _, _)
ConcatRange(ss, lo, hi) ==
  IF lo > hi THEN <<>>
  ELSE IF lo = hi THEN ss[lo]
  ELSE LET mid == (lo + hi) \div 2
       IN  ConcatRange(ss, lo, mid) \o ConcatRange(ss, mid + 1, hi)

Concat(ss) == ConcatRange(ss, 1, Len(ss))

RECURSIVE SeqsUpTo(_, _)
SeqsUpTo(S, n) ==
  IF n = 0 THEN {<<>>}
  ELSE LET shorter == SeqsUpTo(S, n - 1)
       IN  shorter \cup {Append(s, x) : s \in {t \in shorter : Len(t) = n - 1}, x \in S}

Min(a, b) == IF a <= b THEN a ELSE b
Max(a, b) == IF a >= b THEN a ELSE b

(* A slice that keeps one element too many. *)
PySlicePrefixOffByOne(s, k) ==
  IF k >= 0 THEN SubSeq(s, 1, Min(k + 1, Len(s)))
  ELSE SubSeq(s, 1, Max(Len(s) + k + 1, 0))

(* Python's s[:k] on a list: a negative k counts from the end. *)
PySlicePrefix(s, k) ==
  IF k >= 0 THEN SubSeq(s, 1, Min(k, Len(s)))
  ELSE SubSeq(s, 1, Max(Len(s) + k, 0))

(***************************************************************************)
(* The documents.  A key of an entry that may be absent holds None when    *)
(* it is absent and Some(v) when it has the value v.                       *)
(***************************************************************************)
None == <<>>
Some(v) == <<v>>

(* a content of n characters *)
LongText(n) == [i \in 1..n |-> "c"]

DocPool ==
  { [title |-> <<"H">>, content |-> <<"a", " ", "b">>,
     category |-> Some(<<"g">>), embedding |-> Some(<<3, 4>>)],
    [title |-> <<"T", " ", " ", "U">>, content |-> <<" ", "c", "\n", "d", " ">>,
     category |-> None, embedding |-> Some(<<4, 3>>)],
    [title |-> <<"V">>, content |-> <<"e">>,
     category |-> Some(<<>>), embedding |-> Some(<<3, 4>>)],
    [title |-> <<"W">>, content |-> <<"f">>,
     category |-> Some(<<"g">>), embedding |-> Some(<<-3, 4>>)],
    [title |-> <<"Z">>, content |-> <<"z">>,
     category |-> Some(<<"g">>), embedding |-> Some(<<0, 0>>)],
    [title |-> <<"N">>, content |-> <<"n">>,
     category |-> Some(<<"g">>), embedding |-> None],
    [title |-> <<"E">>, content |-> <<"n">>,
     category |-> Some(<<"g">>), embedding |-> Some(<<>>)],
    [title |-> <<"X">>, content |-> <<"x">>,
     category |-> Some(<<"g">>), embedding |-> Some(<<1, 0, 0>>)],
    [title |-> <<"L">>, content |-> <<" ">> \o LongText(PREVIEW_LEN) \o <<"\n">>,
     category |-> Some(<<"g">>), embedding |-> Some(<<3, 4>>)],
    [title |-> <<"M">>, content |-> LongText(PREVIEW_LEN + 1),
     category |-> None, embedding |-> Some(<<4, 3>>)] }

(* A stored entry: a pool document under its (unique) document id. *)
Entry(d, i) ==
  [id |-> i, title |-> d.title, content |-> d.content,
   category |-> d.category, embedding |-> d.embedding]

KnowledgeBases(pool, n) ==
  {[i \in 1..Len(s) |-> Entry(s[i], i)] : s \in SeqsUpTo(pool, n)}

MaxTurns == 12   \* most turns stored for one session

(* The k-th turn a session has stored (database.py add_chat_message); the
   server's timestamps grow with k. *)
Turn(session_id, k) ==
  [session_id |-> session_id,
   user_message |-> <<"q", ToString(k)>>,
   bot_response |-> <<"r", ToString(k)>>,
   context_used |-> <<>>,
   created_at |-> k]

History(session_id, n) == [k \in 1..n |-> Turn(session_id, k)]

(***************************************************************************)
(* Outcomes of a call: a value returned or an exception raised.            *)
(***************************************************************************)
Ok(v) == [status |-> "ok", value |-> v, error |-> "none"]
Raise(e) == [status |-> "raise", value |-> <<>>, error |-> e]

EmbeddingError == "EmbeddingError"
ValueError == "ValueError"

(***************************************************************************)
(* Embedder.  generate_embedding is a deterministic function of the text;  *)
(* the model's encode either returns a vector or raises.                   *)
(***************************************************************************)
Queries == {"hours", "refund", "unencodable"}

generate_embedding(text) ==
  CASE text = "hours" -> Ok(<<3, 4>>)
    [] text = "refund" -> Ok(<<1, 0>>)
    [] OTHER -> Raise(EmbeddingError)

(***************************************************************************)
(* cosine_similarity                                                       *)
(***************************************************************************)
RECURSIVE Dot(_, _)
Dot(v1, v2) ==
  IF v1 = <<>> THEN 0 ELSE Head(v1) * Head(v2) + Dot(Tail(v1), Tail(v2))

(* np.linalg.norm, exact on the vectors of the pool *)
Norm(v) == CHOOSE n \in 0..MaxNorm : n * n = Dot(v, v)

RatGE(a, b) == a[1] * b[2] >= b[1] * a[2]
RatGT(a, b) == a[1] * b[2] > b[1] * a[2]
RatEQ(a, b) == a[1] * b[2] = b[1] * a[2]

(* The quotient without the test of the norms: a zero norm gives 0/0. *)
cosine_similarity_unguarded(vec1, vec2) ==
  IF Len(vec1) # Len(vec2) THEN Raise(ValueError)
  ELSE LET dot_product == Dot(vec1, vec2)
           norm1 == Norm(vec1)
           norm2 == Norm(vec2)
       IN  Ok(<<dot_product, norm1 * norm2>>)

(* np.dot raises ValueError on two 1-D arrays of different length, before
   any norm is looked at. *)
cosine_similarity(vec1, vec2) ==
  IF Len(vec1) # Len(vec2) THEN Raise(ValueError)
  ELSE LET dot_product == Dot(vec1, vec2)
           norm1 == Norm(vec1)
           norm2 == Norm(vec2)
       IN  IF norm1 = 0 \/ norm2 = 0 THEN Ok(<<0, 1>>)
           ELSE Ok(<<dot_product, norm1 * norm2>>)

(***************************************************************************)
(* retrieve_relevant_context                                               *)
(***************************************************************************)
(* A test that takes only an absent key for a missing embedding. *)
NoEmbeddingKeyOnly(entry) == entry.embedding = None

(* `not entry.get('embedding')`: the key is absent or holds an empty list *)
NoEmbedding(entry) == entry.embedding = None \/ entry.embedding = Some(<<>>)

(* entry.get('category', 'general') *)
CategoryOrDefault(entry) ==
  IF entry.category = None THEN <<"general">> ELSE entry.category[1]

Match(entry, similarity) ==
  [id |-> entry.id, title |-> entry.title, content |-> entry.content,
   category |-> CategoryOrDefault(entry), similarity |-> similarity]

(* The loop of lines 102-116: the matches appended so far, or the error
   raised by the first comparison that fails. *)
RECURSIVE ScoreLoop(_, _, _, _)
ScoreLoop(query_embedding, knowledge_base, threshold, results) ==
  IF knowledge_base = <<>> THEN Ok(results)
  ELSE LET entry == Head(knowledge_base)
           rest == Tail(knowledge_base)
       IN  IF NoEmbedding(entry)
           THEN ScoreLoop(query_embedding, rest, threshold, results)
           ELSE LET similarity == cosine_similarity(query_embedding, entry.embedding[1])
                IN  IF similarity.status = "raise" THEN Raise(similarity.error)
                    ELSE IF RatGE(similarity.value, threshold)
                    THEN ScoreLoop(query_embedding, rest, threshold,
                                   Append(results, Match(entry, similarity.value)))
                    ELSE ScoreLoop(query_embedding, rest, threshold, results)

(* An insertion that puts m before the elements of equal key, as sorting
   ascending and reversing the list would. *)
InsertDescUnstable(sorted, m) ==
  LET before == {i \in 1..Len(sorted) : RatGT(sorted[i].similarity, m.similarity)}
      k == Cardinality(before)
  IN  SubSeq(sorted, 1, k) \o <<m>> \o SubSeq(sorted, k + 1, Len(sorted))

(* list.sort(key=similarity, reverse=True): a stable sort, elements of equal
   key keep their order also under reverse=True. *)
InsertDesc(sorted, m) ==
  LET before == {i \in 1..Len(sorted) : RatGE(sorted[i].similarity, m.similarity)}
      k == Cardinality(before)
  IN  SubSeq(sorted, 1, k) \o <<m>> \o SubSeq(sorted, k + 1, Len(sorted))

RECURSIVE SortDescFrom(_, _)
SortDescFrom(sorted, results) ==
  IF results = <<>> THEN sorted
  ELSE SortDescFrom(InsertDesc(sorted, Head(results)), Tail(results))

SortBySimilarityDesc(results) == SortDescFrom(<<>>, results)

retrieve_relevant_context(query, knowledge_base, top_k, threshold) ==
  IF knowledge_base = <<>> THEN Ok(<<>>)
  ELSE LET query_embedding == generate_embedding(query)
       IN  IF query_embedding.status = "raise" THEN Raise(query_embedding.error)
           ELSE LET scored == ScoreLoop(query_embedding.value, knowledge_base,
                                        threshold, <<>>)
                IN  IF scored.status = "raise" THEN scored
                    ELSE Ok(PySlicePrefix(SortBySimilarityDesc(scored.value), top_k))

(***************************************************************************)
(* Text: str.strip(), str.split(' ') and the fallback text of              *)
(* _generate_simple_response.  The three literals are the source's, atom   *)
(* by atom, with its non-ASCII signs written in ASCII.                     *)
(***************************************************************************)
IsSpace(a) == a \in {" ", "\n"}

RECURSIVE LStrip(_)
LStrip(s) == IF s # <<>> /\ IsSpace(Head(s)) THEN LStrip(Tail(s)) ELSE s

RECURSIVE RStrip(_)
RStrip(s) ==
  IF s # <<>> /\ IsSpace(s[Len(s)]) THEN RStrip(SubSeq(s, 1, Len(s) - 1)) ELSE s

Strip(s) == RStrip(LStrip(s))

(* s.split(): the maximal runs of atoms that are not whitespace *)
SplitOnWhitespace(s) ==
  LET indices == [i \in 1..Len(s) |-> i]
      starts == SelectSeq(indices, LAMBDA i : /\ ~IsSpace(s[i])
                                              /\ (i = 1 \/ IsSpace(s[i - 1])))
      ends == SelectSeq(indices, LAMBDA i : /\ ~IsSpace(s[i])
                                            /\ (i = Len(s) \/ IsSpace(s[i + 1])))
  IN  [k \in 1..Len(starts) |-> SubSeq(s, starts[k], ends[k])]

(* s.split(' '): the fields between single spaces, of which there is one
   more than there are spaces; never an empty list *)
SplitOnSpace(s) ==
  LET spaces == SelectSeq([i \in 1..Len(s) |-> i], LAMBDA i : s[i] = " ")
  IN  [k \in 1..(Len(spaces) + 1) |->
         SubSeq(s, IF k = 1 THEN 1 ELSE spaces[k - 1] + 1,
                   IF k = Len(spaces) + 1 THEN Len(s) ELSE spaces[k] - 1)]

NOT_FOUND_TEXT ==
  <<
    "Hey", " ", "there!", " ", "I", " ", "checked", " ", "my", " ", "knowledge", " ",
    "base", " ", "but", " ", "couldn't", " ", "find", " ", "specific", " ",
    "information", " ", "about", " ", "that.", " ", "Here's", " ", "what", " ",
    "might", " ", "help:", "\n", "\n", "*", " ", "Try", " ", "rephrasing", " ", "your",
    " ", "question", " ", "in", " ", "a", " ", "different", " ", "way", "\n", "*", " ",
    "Add", " ", "the", " ", "information", " ", "you're", " ", "looking", " ", "for",
    " ", "to", " ", "the", " ", "knowledge", " ", "base", "\n", "*", " ", "Ask", " ",
    "about", " ", "topics", " ", "that", " ", "are", " ", "already", " ", "in", " ",
    "the", " ", "knowledge", " ", "base", "\n", "\n", "I'm", " ", "here", " ", "to",
    " ", "help", " ", "with", " ", "anything", " ", "else", " ", "you", " ", "need!",
    " ", ":)", "\n", "\n", "(i)", " ", "Tip:", " ", "For", " ", "smarter,", " ",
    "more", " ", "conversational", " ", "responses,", " ", "configure", " ", "an", " ",
    "OpenAI", " ", "API", " ", "key.", " ", "Run", " ", "'python", " ",
    "setup_openai.py'", " ", "in", " ", "the", " ", "backend", " ", "directory."
  >>
RESPONSE_HEADER ==
  <<
    "Great", " ", "question!", " ", "Here's", " ", "what", " ", "I", " ", "found", " ",
    "for", " ", "you:", "\n", "\n"
  >>
RESPONSE_CLOSING ==
  <<
    "Hope", " ", "this", " ", "helps!", " ", "Let", " ", "me", " ", "know", " ", "if",
    " ", "you", " ", "need", " ", "anything", " ", "else.", " ", ":)", "\n", "\n",
    "---", "\n", "(i)", " ", "For", " ", "smarter,", " ", "more", " ",
    "conversational", " ", "responses,", " ", "configure", " ", "an", " ", "OpenAI",
    " ", "API", " ", "key.", "\n", "Run:", " ", "python", " ", "setup_openai.py"
  >>

(* A block that marks a content of exactly PREVIEW_LEN characters as cut. *)
MatchBlockEllipsisAtLimit(ctx) ==
  LET content == Strip(ctx.content)
      content_preview ==
        IF Len(content) >= PREVIEW_LEN
        THEN SubSeq(content, 1, PREVIEW_LEN) \o <<"...">>
        ELSE content
  IN  <<"(doc)", " ", "**">> \o ctx.title \o <<"**">>
      \o (IF ctx.category # <<>> THEN <<" ", "(">> \o ctx.category \o <<")">> ELSE <<>>)
      \o <<"\n">>
      \o content_preview \o <<"\n", "\n">>

(* the block of one match, lines 308-318 *)
MatchBlock(ctx) ==
  LET content == Strip(ctx.content)
      content_preview ==
        IF Len(content) > PREVIEW_LEN
        THEN SubSeq(content, 1, PREVIEW_LEN) \o <<"...">>
        ELSE content
  IN  <<"(doc)", " ", "**">> \o ctx.title \o <<"**">>
      \o (IF ctx.category # <<>> THEN <<" ", "(">> \o ctx.category \o <<")">> ELSE <<>>)
      \o <<"\n">>
      \o content_preview \o <<"\n", "\n">>

(* A response that has no branch for an empty match list. *)
_generate_simple_response_always_blocks(query, context) ==
  RESPONSE_HEADER
  \o Concat([i \in 1..Len(context) |-> MatchBlock(context[i])])
  \o RESPONSE_CLOSING

_generate_simple_response(query, context) ==
  IF context = <<>> THEN NOT_FOUND_TEXT
  ELSE RESPONSE_HEADER
       \o Concat([i \in 1..Len(context) |-> MatchBlock(context[i])])
       \o RESPONSE_CLOSING

(***************************************************************************)
(* _build_messages: the request handed to the backend.                     *)
(***************************************************************************)
HISTORY_WINDOW == 5

(* A slice that keeps the first k elements. *)
PySliceFirst(s, k) == SubSeq(s, 1, Min(k, Len(s)))

(* Python's s[-k:] on a list, k >= 1: the last k elements, all if fewer. *)
PySliceSuffix(s, k) == SubSeq(s, Max(Len(s) - k + 1, 1), Len(s))

(* sep.join(parts) *)
Join(sep, parts) ==
  Concat([i \in 1..Len(parts) |-> IF i = 1 THEN parts[i] ELSE sep \o parts[i]])

SYSTEM_MESSAGE ==
  <<
    "You", " ", "are", " ", "a", " ", "friendly", " ", "and", " ", "helpful", " ",
    "customer", " ", "support", " ", "representative.", " ", "Your", " ", "goal", " ",
    "is", " ", "to", " ", "assist", " ", "customers", " ", "in", " ", "a", " ",
    "warm,", " ", "conversational,", " ", "and", " ", "natural", " ", "way.", " ",
    "Speak", " ", "like", " ", "a", " ", "real", " ", "person", " ", "would", " ", "-",
    " ", "use", " ", "a", " ", "smooth,", " ", "approachable", " ", "tone", " ", "and",
    " ", "avoid", " ", "sounding", " ", "robotic", " ", "or", " ", "overly", " ",
    "formal.", " ", "\n", "\n", "Guidelines:", "\n", "-", " ", "Be", " ", "warm", " ",
    "and", " ", "empathetic", " ", "-", " ", "show", " ", "you", " ", "care", " ",
    "about", " ", "helping", " ", "them", "\n", "-", " ", "Use", " ", "natural", " ",
    "language", " ", "-", " ", "contractions", " ", "(I'm,", " ", "you'll,", " ",
    "it's)", " ", "and", " ", "casual", " ", "phrases", " ", "are", " ", "great", "\n",
    "-", " ", "Keep", " ", "responses", " ", "concise", " ", "but", " ", "helpful",
    " ", "-", " ", "get", " ", "to", " ", "the", " ", "point", " ", "while", " ",
    "being", " ", "friendly", "\n", "-", " ", "Use", " ", "the", " ", "knowledge", " ",
    "base", " ", "information", " ", "provided,", " ", "but", " ", "present", " ",
    "it", " ", "naturally", " ", "in", " ", "your", " ", "own", " ", "words", "\n",
    "-", " ", "If", " ", "you", " ", "don't", " ", "have", " ", "enough", " ",
    "information,", " ", "be", " ", "honest", " ", "and", " ", "offer", " ", "to", " ",
    "help", " ", "in", " ", "other", " ", "ways", "\n", "-", " ", "Add", " ",
    "personality", " ", "-", " ", "use", " ", "phrases", " ", "like", " ", "'Happy",
    " ", "to", " ", "help!',", " ", "'Great", " ", "question!',", " ", "'I've", " ",
    "got", " ", "you", " ", "covered'", "\n", "-", " ", "Break", " ", "up", " ",
    "longer", " ", "responses", " ", "with", " ", "bullet", " ", "points", " ", "or",
    " ", "short", " ", "paragraphs", " ", "for", " ", "easy", " ", "reading", "\n",
    "-", " ", "End", " ", "with", " ", "a", " ", "helpful", " ", "note", " ", "or",
    " ", "ask", " ", "if", " ", "they", " ", "need", " ", "anything", " ", "else", " ",
    "when", " ", "appropriate"
  >>

Message(role, content) == [role |-> role, content |-> content]

(* the query as a text: one run of characters *)
QueryText(query) == <<query>>

(* A part that leaves the title label out. *)
ContextPartNoLabel(ctx) == ctx.content

(* f"[{ctx['title']}]\n{ctx['content']}" *)
ContextPart(ctx) == <<"[">> \o ctx.title \o <<"]", "\n">> \o ctx.content

(* chat_history is [] also where the source has None: `if chat_history`
   takes both the same way. *)
_build_messages(query, context, chat_history) ==
  LET context_str ==
        IF context # <<>>
        THEN Join(<<"\n", "\n">>, [i \in 1..Len(context) |-> ContextPart(context[i])])
        ELSE <<>>
      recent == IF chat_history # <<>>
                THEN PySliceSuffix(chat_history, HISTORY_WINDOW)
                ELSE <<>>
      history_messages ==
        [i \in 1..(2 * Len(recent)) |->
           IF i % 2 = 1 THEN Message("user", recent[(i + 1) \div 2].user_message)
           ELSE Message("assistant", recent[i \div 2].bot_response)]
      user_content ==
        IF context_str # <<>>
        THEN <<"Context", " ", "from", " ", "knowledge", " ", "base:", "\n", "\n">>
             \o context_str
             \o <<"\n", "\n", "---", "\n", "\n", "User", " ", "question:", " ">>
             \o QueryText(query)
        ELSE QueryText(query)
  IN  <<Message("system", SYSTEM_MESSAGE)>> \o history_messages
      \o <<Message("user", user_content)>>

(***************************************************************************)
(* The backend (OpenAI chat completions) as the code sees it.              *)
(***************************************************************************)
(* what a non-streaming completion call can come to *)
BackendTexts == {<<"Sure", " ", "thing.">>, <<" ", "Hi", "\n">>, <<>>}

BackendResults ==
  {[kind |-> "text", content |-> t] : t \in BackendTexts}
    \cup {[kind |-> k, content |-> <<>>] : k \in {"api_error", "no_choices", "none_content"}}

(* A variant that hands a failed call's empty result to the caller. *)
_generate_with_openai_unmasked(query, context, chat_history, backend) ==
  IF backend.kind = "text" THEN Strip(backend.content) ELSE <<>>

(* _generate_with_openai: create(...) raises (api_error), choices[0] raises
   IndexError (no_choices), None.strip() raises AttributeError (none_content);
   each is caught by `except Exception`. *)
_generate_with_openai(query, context, chat_history, backend) ==
  LET messages == _build_messages(query, context, chat_history)
  IN  IF backend.kind = "text" THEN Strip(backend.content)
      ELSE _generate_simple_response(query, context)

generate_response_with_context(openai, query, context, chat_history, backend) ==
  IF openai THEN _generate_with_openai(query, context, chat_history, backend)
  ELSE _generate_simple_response(query, context)

(* An answer that takes a failed retrieval for an empty match list. *)
generate_chat_response_masking_retrieval(openai, query, knowledge_base, chat_history, backend, top_k) ==
  LET context == retrieve_relevant_context(query, knowledge_base, top_k, DEFAULT_THRESHOLD)
      matches == IF context.status = "raise" THEN <<>> ELSE context.value
  IN  Ok([response |-> generate_response_with_context(openai, query,
                            matches, chat_history, backend),
          context |-> matches])

(* An answer that returns only the first of the matches it generated with. *)
generate_chat_response_first_match(openai, query, knowledge_base, chat_history, backend, top_k) ==
  LET context == retrieve_relevant_context(query, knowledge_base, top_k, DEFAULT_THRESHOLD)
  IN  IF context.status = "raise" THEN context
      ELSE Ok([response |-> generate_response_with_context(openai, query,
                                 context.value, chat_history, backend),
               context |-> PySlicePrefix(context.value, 1)])

(* generate_chat_response: the pair (response, context), or the exception
   of the retrieval *)
generate_chat_response(openai, query, knowledge_base, chat_history, backend, top_k) ==
  LET context == retrieve_relevant_context(query, knowledge_base, top_k, DEFAULT_THRESHOLD)
  IN  IF context.status = "raise" THEN context
      ELSE Ok([response |-> generate_response_with_context(openai, query,
                                 context.value, chat_history, backend),
               context |-> context.value])

(***************************************************************************)
(* The chat history and the sessions (database.py).                        *)
(***************************************************************************)
CHAT_HISTORY_LIMIT == 10
NewSessionId == "s3"     \* str(uuid.uuid4()): an id no session has yet

(* add_chat_message: SERVER_TIMESTAMP is later than every stored one *)
add_chat_message(db, session_id, message, bot_response, context) ==
  Append(db, [session_id |-> session_id,
              user_message |-> QueryText(message),
              bot_response |-> bot_response,
              context_used |-> context,
              created_at |-> Len(db) + 1])

(* results.sort(key=created_at): ascending and stable *)
InsertByCreatedAt(sorted, r) ==
  LET before == {i \in 1..Len(sorted) : sorted[i].created_at <= r.created_at}
      k == Cardinality(before)
  IN  SubSeq(sorted, 1, k) \o <<r>> \o SubSeq(sorted, k + 1, Len(sorted))

RECURSIVE SortByCreatedAtFrom(_, _)
SortByCreatedAtFrom(sorted, results) ==
  IF results = <<>> THEN sorted
  ELSE SortByCreatedAtFrom(InsertByCreatedAt(sorted, Head(results)), Tail(results))

(* get_chat_history: the session's records, sorted, results[:limit] *)
get_chat_history(db, session_id, limit) ==
  LET results == SelectSeq(db, LAMBDA r : r.session_id = session_id)
      sorted == SortByCreatedAtFrom(<<>>, results)
  IN  PySlicePrefix(sorted, limit)

(* `except Exception` lets the exceptions that are not an Exception pass:
   GeneratorExit, which close() raises in a suspended generator, is one. *)
ExceptCatchesAll(exc) == TRUE

ExceptCatches(exc) == exc # "GeneratorExit"

(***************************************************************************)
(* State.                                                                  *)
(***************************************************************************)
VARIABLES
  openai_client,  \* RAGService.openai_client is set (backend mode) or None
  rank_call,      \* the last call of retrieve_relevant_context and its outcome
  answer_call,    \* the last call of generate_chat_response and its outcome
  cosine_call,    \* the last call of cosine_similarity and its outcome
  messages_call,  \* the last call of _build_messages and its outcome
  \* the store (database.py)
  knowledge_store,  \* collection knowledge_base
  chat_history_db,  \* collection chat_history, in order of insertion
  sessions,         \* collection sessions: the ids that have a record
  \* one request of /api/chat or /api/chat/stream
  handler_pc,     \* "idle", "streaming" (generate() is being iterated),
                  \* "finished", "rejected", "closed" (the caller went away)
  user_message,   \* data['message']
  session_id,     \* data.get('session_id'), or the new id
  knowledge_base, \* db.get_all_knowledge_with_embeddings(), read with the request
  chat_history,   \* db.get_chat_history(session_id, limit=10), read with it
  http_response,  \* what the view function returned
  full_response,  \* generate(): full_response
  context_used,   \* generate(): context_used
  frames,         \* the frames generate() has yielded to the transport
  \* the generator generate_chat_response_stream it iterates
  gen_pc,         \* where the generator is suspended
  gen_context,    \* its local `context`
  gen_messages,   \* None, or Some(messages): the request built for the backend
  gen_words,      \* its local `words`
  gen_i,          \* its local `i` (1-based: the word last yielded)
  chunks_read,    \* chunks taken from the backend's stream so far
  events,         \* the events the generator has yielded
  \* history of the run, for stating properties
  backend_output, \* the fragments the backend has delivered, concatenated
  failed_at,      \* None, or Some(n): the backend call raised after n events
  backend_calls,  \* calls of chat.completions.create made for the request
  retrievals,     \* calls of retrieve_relevant_context made for the request
  db_at_request,  \* chat_history_db as the request found it
  abandoned_at,   \* None, or Some(r): the caller closed the stream, r counts
                  \* the events and frames there were
  \* the knowledge endpoints (app.py) on the knowledge_base collection
  ids_issued,     \* document ids the collection has handed out so far
  kb_call,        \* the last knowledge request and what it returned
  \* one call of ScraperService.scrape_website and the endpoint around it
  scrape_pc,      \* "idle", "loop" (at the head of the while), "returned",
                  \* "raised", "responded"
  scrape_call,    \* its arguments and the site it reads
  visited_urls,   \* scrape_website: visited_urls
  urls_to_visit,  \* scrape_website: urls_to_visit
  scrape_results, \* scrape_website: results
  fetched,        \* the requests.get calls made, in order: <<url, depth>>
  \* a second request, served by another thread of the server
  parked          \* the locals of the request whose thread is not running

store_vars == <<knowledge_store, chat_history_db, sessions>>
request_vars == <<user_message, session_id, knowledge_base, chat_history,
                  http_response, db_at_request>>
handler_vars == <<handler_pc, request_vars, full_response, context_used, frames>>
gen_vars == <<gen_pc, gen_context, gen_messages, gen_words, gen_i, chunks_read,
              events, backend_output, failed_at, backend_calls, retrievals,
              abandoned_at>>
stream_vars == <<store_vars, handler_vars, gen_vars>>

call_vars == <<rank_call, answer_call, cosine_call, messages_call>>

kb_vars == <<ids_issued, kb_call>>
scrape_vars == <<scrape_pc, scrape_call, visited_urls, urls_to_visit,
                 scrape_results, fetched>>
service_vars == <<kb_vars, scrape_vars, parked>>

vars == <<openai_client, call_vars, service_vars, stream_vars, service_vars>>

NoResponse ==
  [status |-> 0, kind |-> "none", success |-> FALSE, response |-> <<>>,
   context_used |-> <<>>, error |-> "none"]

(* no request made yet *)
RequestIdle ==
  /\ handler_pc = "idle"
  /\ user_message = ""
  /\ session_id = ""
  /\ knowledge_base = <<>>
  /\ chat_history = <<>>
  /\ http_response = NoResponse
  /\ full_response = <<>>
  /\ context_used = <<>>
  /\ frames = <<>>
  /\ gen_pc = "none"
  /\ gen_context = <<>>
  /\ gen_messages = None
  /\ gen_words = <<>>
  /\ gen_i = 0
  /\ chunks_read = 0
  /\ events = <<>>
  /\ backend_output = <<>>
  /\ failed_at = None
  /\ backend_calls = 0
  /\ retrievals = 0
  /\ db_at_request = <<>>
  /\ abandoned_at = None

StreamIdle ==
  /\ knowledge_store = <<>>
  /\ chat_history_db = <<>>
  /\ sessions = {}
  /\ RequestIdle

NoCall == [op |-> "none"]

(* the locals of a request that has not been made *)
IdleLocals ==
  [handler_pc |-> "idle", user_message |-> "", session_id |-> "",
   knowledge_base |-> <<>>, chat_history |-> <<>>,
   http_response |-> NoResponse, db_at_request |-> <<>>,
   full_response |-> <<>>, context_used |-> <<>>, frames |-> <<>>,
   gen_pc |-> "none", gen_context |-> <<>>, gen_messages |-> None,
   gen_words |-> <<>>, gen_i |-> 0, chunks_read |-> 0, events |-> <<>>,
   backend_output |-> <<>>, failed_at |-> None, backend_calls |-> 0,
   retrievals |-> 0, abandoned_at |-> None]

(* the locals of the request whose thread is running *)
Locals ==
  [handler_pc |-> handler_pc, user_message |-> user_message,
   session_id |-> session_id, knowledge_base |-> knowledge_base,
   chat_history |-> chat_history, http_response |-> http_response,
   db_at_request |-> db_at_request, full_response |-> full_response,
   context_used |-> context_used, frames |-> frames, gen_pc |-> gen_pc,
   gen_context |-> gen_context, gen_messages |-> gen_messages,
   gen_words |-> gen_words, gen_i |-> gen_i, chunks_read |-> chunks_read,
   events |-> events, backend_output |-> backend_output,
   failed_at |-> failed_at, backend_calls |-> backend_calls,
   retrievals |-> retrievals, abandoned_at |-> abandoned_at]

(* no knowledge request made, no scrape started, no second request *)
ServiceIdle ==
  /\ parked = IdleLocals
  /\ ids_issued = 0
  /\ kb_call = NoCall
  /\ scrape_pc = "idle"
  /\ scrape_call = NoCall
  /\ visited_urls = {}
  /\ urls_to_visit = <<>>
  /\ scrape_results = <<>>
  /\ fetched = <<>>

TopKs == (0 - MaxNegTopK)..MaxTopK

(* one document of each embedding of the pool *)
RankPool == {d \in DocPool : d.title \notin {<<"V">>, <<"L">>, <<"M">>}}
Thresholds == {<<3, 10>>, <<1, 5>>, <<0, 1>>, <<11, 10>>}

(***************************************************************************)
(* Ranking on its own: one call of retrieve_relevant_context per step.     *)
(***************************************************************************)
InitRank ==
  /\ openai_client = FALSE
  /\ rank_call = NoCall
  /\ answer_call = NoCall
  /\ cosine_call = NoCall
  /\ messages_call = NoCall
  /\ StreamIdle
  /\ ServiceIdle

Retrieve ==
  /\ rank_call = NoCall
  /\ cosine_call = NoCall
  /\ \E query \in Queries, documents \in KnowledgeBases(RankPool, MaxDocs),
        top_k \in TopKs, threshold \in Thresholds :
          rank_call' = [op |-> "retrieve", query |-> query,
                        knowledge_base |-> documents, top_k |-> top_k,
                        threshold |-> threshold,
                        result |-> retrieve_relevant_context(query, documents,
                                                             top_k, threshold)]
  /\ UNCHANGED <<openai_client, answer_call, cosine_call, messages_call,
                 stream_vars, service_vars>>

(* one call of cosine_similarity on its own, on the vectors of the pool and
   of the queries, and the zero vectors *)
Cosine ==
  /\ rank_call = NoCall
  /\ cosine_call = NoCall
  /\ \E vec1, vec2 \in {<<3, 4>>, <<4, 3>>, <<-3, 4>>, <<1, 0>>, <<0, 0>>,
                        <<1, 0, 0>>, <<0, 0, 0>>, <<>>} :
        cosine_call' = [op |-> "cosine", vec1 |-> vec1, vec2 |-> vec2,
                        result |-> cosine_similarity(vec1, vec2)]
  /\ UNCHANGED <<openai_client, rank_call, answer_call, messages_call,
                 stream_vars, service_vars>>

NextRank == Retrieve \/ Cosine

SpecRank == InitRank /\ [][NextRank]_vars

(***************************************************************************)
(* Non-streaming answers: RAGService is constructed in either mode, then   *)
(* generate_chat_response is called once.                                  *)
(***************************************************************************)
MaxAnswerDocs == 2   \* longest document list handed to generate_chat_response

InitAnswer ==
  /\ openai_client \in BOOLEAN
  /\ rank_call = NoCall
  /\ answer_call = NoCall
  /\ cosine_call = NoCall
  /\ messages_call = NoCall
  /\ StreamIdle
  /\ ServiceIdle

(* the history handed to generate_chat_response: none, or two turns *)
AnswerTurns == {0, 2}

Answer ==
  /\ answer_call = NoCall
  /\ \E query \in Queries, documents \in KnowledgeBases(DocPool, MaxAnswerDocs),
        turns \in AnswerTurns, backend \in BackendResults :
          answer_call' = [op |-> "answer", query |-> query,
                          knowledge_base |-> documents,
                          chat_history |-> History("s1", turns), backend |-> backend,
                          result |-> generate_chat_response(openai_client, query,
                                        documents, History("s1", turns), backend,
                                        DEFAULT_TOP_K)]
  /\ UNCHANGED <<openai_client, rank_call, cosine_call, messages_call,
                 stream_vars, service_vars>>

NextAnswer == Answer

SpecAnswer == InitAnswer /\ [][NextAnswer]_vars

(***************************************************************************)
(* Streaming answers: POST /api/chat/stream.  The transport iterates       *)
(* generate(); each step below is one next() on it, which runs the         *)
(* generator generate_chat_response_stream up to its next yield, handles   *)
(* the chunk and yields one frame.                                         *)
(***************************************************************************)
MaxStored == 2       \* longest stored knowledge base
MaxChunks == 2       \* most chunks the backend's stream delivers

StorePool ==
  {d \in DocPool : d.title \in {<<"H">>, <<"T", " ", " ", "U">>, <<"V">>, <<"Z">>, <<"X">>}}

(* the text fragments of the backend's chunks (delta.content) *)
Fragments == {<<"Hi", " ">>, <<"there">>}

(* data.get('session_id'): absent, or the id of a session *)
GivenSessions == {None, Some("s1")}

Event(type, context, content) ==
  [type |-> type, context |-> context, content |-> content]

Frame(type, context, content, error) ==
  [type |-> type, context |-> context, content |-> content, error |-> error]

(* jsonify(...) with its status code *)
HttpJson(status, success, response, context, error) ==
  [status |-> status, kind |-> "json", success |-> success, response |-> response,
   context_used |-> context, error |-> error]

(* Response(stream_with_context(generate()), mimetype='text/event-stream') *)
HttpStream ==
  [status |-> 200, kind |-> "stream", success |-> TRUE, response |-> <<>>,
   context_used |-> <<>>, error |-> "none"]

InitStream ==
  /\ openai_client \in BOOLEAN
  /\ rank_call = NoCall
  /\ answer_call = NoCall
  /\ cosine_call = NoCall
  /\ messages_call = NoCall
  /\ knowledge_store \in KnowledgeBases(StorePool, MaxStored)
  /\ chat_history_db = <<>>
  /\ sessions = {}
  /\ RequestIdle
  /\ ServiceIdle

(* chat() and chat_stream(), lines 204-208 and 258-262: a body without a
   message is answered with 400 before anything is read or written. *)
MissingMessage ==
  /\ handler_pc = "idle"
  /\ handler_pc' = "rejected"
  /\ http_response' = HttpJson(400, FALSE, <<>>, <<>>, "Message is required")
  /\ UNCHANGED <<openai_client, call_vars, service_vars, store_vars, user_message, session_id,
                 knowledge_base, chat_history, db_at_request,
                 full_response, context_used, frames, gen_vars>>

(* chat_stream(): the request is read, the session created when no id was
   given (update_session_activity creates none), the knowledge base and the
   history are read and Response(generate()) is returned; the generator
   object exists, none of its code has run. *)
ChatStreamRequest(queries) ==
  /\ handler_pc = "idle"
  /\ \E message \in queries, given \in GivenSessions :
       LET sid == IF given = None THEN NewSessionId ELSE given[1]
       IN  /\ user_message' = message
           /\ session_id' = sid
           /\ sessions' = (IF given = None THEN sessions \cup {sid} ELSE sessions)
           /\ chat_history' = get_chat_history(chat_history_db, sid, CHAT_HISTORY_LIMIT)
  /\ knowledge_base' = knowledge_store
  /\ db_at_request' = chat_history_db
  /\ http_response' = HttpStream
  /\ handler_pc' = "streaming"
  /\ gen_pc' = "created"
  /\ UNCHANGED <<openai_client, call_vars, service_vars, knowledge_store, chat_history_db,
                 full_response, context_used, frames,
                 gen_context, gen_messages, gen_words, gen_i, chunks_read, events,
                 backend_output, failed_at, backend_calls, retrievals, abandoned_at>>

(* An except branch that saves what was accumulated before it reports. *)
HandleExceptionSavesPartial(error) ==
  /\ frames' = Append(frames, Frame("error", <<>>, <<>>, error))
  /\ handler_pc' = "finished"
  /\ chat_history_db' = add_chat_message(chat_history_db, session_id,
                                         user_message, full_response, context_used)
  /\ UNCHANGED <<full_response, context_used>>

(* generate(), `except Exception as e`: one error frame, then the end *)
HandleException(error) ==
  /\ frames' = Append(frames, Frame("error", <<>>, <<>>, error))
  /\ handler_pc' = "finished"
  /\ UNCHANGED <<full_response, context_used, chat_history_db>>

(* A loop body that sends no frame for the context chunk. *)
HandleChunkNoInitFrame(chunk) ==
  CASE chunk.type = "context" ->
         /\ context_used' = chunk.context
         /\ UNCHANGED <<frames, full_response, handler_pc, chat_history_db>>
    [] chunk.type = "content" ->
         /\ full_response' = full_response \o chunk.content
         /\ frames' = Append(frames, Frame("content", <<>>, chunk.content, "none"))
         /\ UNCHANGED <<context_used, handler_pc, chat_history_db>>
    [] chunk.type = "done" ->
         \/ /\ chat_history_db' = add_chat_message(chat_history_db, session_id,
                                  user_message, full_response, context_used)
            /\ frames' = Append(frames, Frame("done", <<>>, <<>>, "none"))
            /\ UNCHANGED <<full_response, context_used, handler_pc>>
         \/ HandleException("StoreError")

(* A loop body that yields the done frame before it saves: when the save
   raises, the error frame follows the done frame. *)
HandleChunkDoneBeforeSave(chunk) ==
  CASE chunk.type = "context" ->
         /\ context_used' = chunk.context
         /\ frames' = Append(frames, Frame("init", chunk.context, <<>>, "none"))
         /\ UNCHANGED <<full_response, handler_pc, chat_history_db>>
    [] chunk.type = "content" ->
         /\ full_response' = full_response \o chunk.content
         /\ frames' = Append(frames, Frame("content", <<>>, chunk.content, "none"))
         /\ UNCHANGED <<context_used, handler_pc, chat_history_db>>
    [] chunk.type = "done" ->
         \/ /\ chat_history_db' = add_chat_message(chat_history_db, session_id,
                                  user_message, full_response, context_used)
            /\ frames' = Append(frames, Frame("done", <<>>, <<>>, "none"))
            /\ UNCHANGED <<full_response, context_used, handler_pc>>
         \/ /\ frames' = frames \o <<Frame("done", <<>>, <<>>, "none"),
                                      Frame("error", <<>>, <<>>, "StoreError")>>
            /\ handler_pc' = "finished"
            /\ UNCHANGED <<full_response, context_used, chat_history_db>>

(* A loop body that sends a content chunk without its surrounding
   whitespace. *)
HandleChunkStripsContent(chunk) ==
  CASE chunk.type = "context" ->
         /\ context_used' = chunk.context
         /\ frames' = Append(frames, Frame("init", chunk.context, <<>>, "none"))
         /\ UNCHANGED <<full_response, handler_pc, chat_history_db>>
    [] chunk.type = "content" ->
         /\ full_response' = full_response \o chunk.content
         /\ frames' = Append(frames, Frame("content", <<>>, Strip(chunk.content), "none"))
         /\ UNCHANGED <<context_used, handler_pc, chat_history_db>>
    [] chunk.type = "done" ->
         \/ /\ chat_history_db' = add_chat_message(chat_history_db, session_id,
                                  user_message, full_response, context_used)
            /\ frames' = Append(frames, Frame("done", <<>>, <<>>, "none"))
            /\ UNCHANGED <<full_response, context_used, handler_pc>>
         \/ HandleException("StoreError")

(* generate(), the body of its for loop on one chunk, lines 292-302.
   db.add_chat_message may raise. *)
HandleChunk(chunk) ==
  CASE chunk.type = "context" ->
         /\ context_used' = chunk.context
         /\ frames' = Append(frames, Frame("init", chunk.context, <<>>, "none"))
         /\ UNCHANGED <<full_response, handler_pc, chat_history_db>>
    [] chunk.type = "content" ->
         /\ full_response' = full_response \o chunk.content
         /\ frames' = Append(frames, Frame("content", <<>>, chunk.content, "none"))
         /\ UNCHANGED <<context_used, handler_pc, chat_history_db>>
    [] chunk.type = "done" ->
         \/ /\ chat_history_db' = add_chat_message(chat_history_db, session_id,
                                  user_message, full_response, context_used)
            /\ frames' = Append(frames, Frame("done", <<>>, <<>>, "none"))
            /\ UNCHANGED <<full_response, context_used, handler_pc>>
         \/ HandleException("StoreError")

(* the generator yields chunk and generate() handles it *)
Yield(chunk) ==
  /\ events' = Append(events, chunk)
  /\ HandleChunk(chunk)

(* A first step whose context event carries the first match only. *)
PullContextFirstMatchOnly ==
  /\ handler_pc = "streaming"
  /\ gen_pc = "created"
  /\ retrievals' = retrievals + 1
  /\ LET context == retrieve_relevant_context(user_message, knowledge_base,
                                              DEFAULT_TOP_K, DEFAULT_THRESHOLD)
     IN  IF context.status = "raise"
         THEN /\ gen_pc' = "raised"
              /\ HandleException(context.error)
              /\ UNCHANGED <<gen_context, events>>
         ELSE /\ gen_context' = context.value
              /\ gen_pc' = "after_context"
              /\ Yield(Event("context", PySlicePrefix(context.value, 1), <<>>))
  /\ UNCHANGED <<openai_client, call_vars, service_vars, knowledge_store, sessions, request_vars,
                 gen_messages, gen_words, gen_i, chunks_read, backend_output,
                 failed_at, backend_calls, abandoned_at>>

(* A first step that scores in place: it takes the embedding out of each
   input document. *)
PullContextInPlace ==
  /\ handler_pc = "streaming"
  /\ gen_pc = "created"
  /\ retrievals' = retrievals + 1
  /\ LET context == retrieve_relevant_context(user_message, knowledge_base,
                                              DEFAULT_TOP_K, DEFAULT_THRESHOLD)
     IN  IF context.status = "raise"
         THEN /\ gen_pc' = "raised"
              /\ HandleException(context.error)
              /\ UNCHANGED <<gen_context, events>>
         ELSE /\ gen_context' = context.value
              /\ gen_pc' = "after_context"
              /\ Yield(Event("context", context.value, <<>>))
  /\ knowledge_base' = [i \in DOMAIN knowledge_base |->
                         [knowledge_base[i] EXCEPT !.embedding = None]]
  /\ UNCHANGED <<user_message, session_id, chat_history, http_response, db_at_request>>
  /\ UNCHANGED <<openai_client, call_vars, service_vars, knowledge_store, sessions,
                 gen_messages, gen_words, gen_i, chunks_read, backend_output,
                 failed_at, backend_calls, abandoned_at>>

(* lines 226-233: the first next() *)
PullContext ==
  /\ handler_pc = "streaming"
  /\ gen_pc = "created"
  /\ retrievals' = retrievals + 1
  /\ LET context == retrieve_relevant_context(user_message, knowledge_base,
                                              DEFAULT_TOP_K, DEFAULT_THRESHOLD)
     IN  IF context.status = "raise"
         THEN /\ gen_pc' = "raised"
              /\ HandleException(context.error)
              /\ UNCHANGED <<gen_context, events>>
         ELSE /\ gen_context' = context.value
              /\ gen_pc' = "after_context"
              /\ Yield(Event("context", context.value, <<>>))
  /\ UNCHANGED <<openai_client, call_vars, service_vars, knowledge_store, sessions, request_vars,
                 gen_messages, gen_words, gen_i, chunks_read, backend_output,
                 failed_at, backend_calls, abandoned_at>>

(* An except branch that builds the fallback text without the matches. *)
BackendRaisesNoContext(read) ==
  /\ chunks_read' = read
  /\ failed_at' = Some(Len(events))
  /\ gen_pc' = "in_except"
  /\ Yield(Event("content", <<>>, _generate_simple_response(user_message, <<>>)))
  /\ UNCHANGED backend_output

(* lines 263-270: the except branch up to its first yield *)
BackendRaises(read) ==
  /\ chunks_read' = read
  /\ failed_at' = Some(Len(events))
  /\ gen_pc' = "in_except"
  /\ Yield(Event("content", <<>>, _generate_simple_response(user_message, gen_context)))
  /\ UNCHANGED backend_output

(* lines 237-261: the try block from where it stands up to its next yield.
   Of the chunks still to come, `skipped` have delta.content None and yield
   nothing; then the stream delivers a fragment, ends, or the call raises
   (create() itself when nothing was read, the iteration, or a chunk without
   choices). *)
BackendAdvance ==
  \E skipped \in 0..(MaxChunks - chunks_read) :
    LET read == chunks_read + skipped
    IN  \/ /\ read < MaxChunks
           /\ \E fragment \in Fragments :
                /\ chunks_read' = read + 1
                /\ backend_output' = backend_output \o fragment
                /\ gen_pc' = "in_stream"
                /\ Yield(Event("content", <<>>, fragment))
           /\ UNCHANGED failed_at
        \/ /\ chunks_read' = read
           /\ gen_pc' = "after_done"
           /\ Yield(Event("done", <<>>, <<>>))
           /\ UNCHANGED <<backend_output, failed_at>>
        \/ BackendRaises(read)

(* lines 235-250 and 274-283: the next() after the context event.  With a
   backend the request is built from the matches and the history and
   create(..., stream=True) is called, once. *)
PullGenerate ==
  /\ handler_pc = "streaming"
  /\ gen_pc = "after_context"
  /\ IF openai_client
     THEN /\ gen_messages' = Some(_build_messages(user_message, gen_context,
                                                  chat_history))
          /\ backend_calls' = backend_calls + 1
          /\ BackendAdvance
          /\ UNCHANGED <<gen_words, gen_i>>
     ELSE LET response == _generate_simple_response(user_message, gen_context)
              words == SplitOnSpace(response)
          IN  /\ gen_words' = words
              /\ gen_i' = 1
              /\ gen_pc' = "in_words"
              /\ Yield(Event("content", <<>>,
                             words[1] \o (IF 1 < Len(words) THEN <<" ">> ELSE <<>>)))
              /\ UNCHANGED <<gen_messages, backend_calls, chunks_read,
                             backend_output, failed_at>>
  /\ UNCHANGED <<openai_client, call_vars, service_vars, knowledge_store, sessions, request_vars,
                 gen_context, retrievals, abandoned_at>>

(* A next() that gives up the client once the backend's stream has raised. *)
PullChunkDropsClient ==
  /\ handler_pc = "streaming"
  /\ gen_pc = "in_stream"
  /\ BackendAdvance
  /\ openai_client' = (failed_at' = None)
  /\ UNCHANGED <<call_vars, service_vars, knowledge_store, sessions, request_vars,
                 gen_context, gen_messages, gen_words, gen_i, backend_calls,
                 retrievals, abandoned_at>>

(* lines 252-261: a next() inside the loop over the backend's stream *)
PullChunk ==
  /\ handler_pc = "streaming"
  /\ gen_pc = "in_stream"
  /\ BackendAdvance
  /\ UNCHANGED <<openai_client, call_vars, service_vars, knowledge_store, sessions, request_vars,
                 gen_context, gen_messages, gen_words, gen_i, backend_calls,
                 retrievals, abandoned_at>>

(* A step after the fallback text that calls the backend once more. *)
PullExceptDoneCallsAgain ==
  /\ handler_pc = "streaming"
  /\ gen_pc = "in_except"
  /\ backend_calls' = backend_calls + 1
  /\ gen_pc' = "after_done"
  /\ Yield(Event("done", <<>>, <<>>))
  /\ UNCHANGED <<openai_client, call_vars, service_vars, knowledge_store, sessions, request_vars,
                 gen_context, gen_messages, gen_words, gen_i, chunks_read,
                 backend_output, failed_at, retrievals, abandoned_at>>

(* lines 271-273: the next() after the fallback text of the except branch *)
PullExceptDone ==
  /\ handler_pc = "streaming"
  /\ gen_pc = "in_except"
  /\ gen_pc' = "after_done"
  /\ Yield(Event("done", <<>>, <<>>))
  /\ UNCHANGED <<openai_client, call_vars, service_vars, knowledge_store, sessions, request_vars,
                 gen_context, gen_messages, gen_words, gen_i, chunks_read,
                 backend_output, failed_at, backend_calls, retrievals, abandoned_at>>

(* lines 279-286: a next() inside the loop over the words *)
PullWord ==
  /\ handler_pc = "streaming"
  /\ gen_pc = "in_words"
  /\ IF gen_i < Len(gen_words)
     THEN /\ gen_i' = gen_i + 1
          /\ gen_pc' = "in_words"
          /\ Yield(Event("content", <<>>,
                         gen_words[gen_i + 1]
                           \o (IF gen_i + 1 < Len(gen_words) THEN <<" ">> ELSE <<>>)))
     ELSE /\ gen_pc' = "after_done"
          /\ Yield(Event("done", <<>>, <<>>))
          /\ UNCHANGED gen_i
  /\ UNCHANGED <<openai_client, call_vars, service_vars, knowledge_store, sessions, request_vars,
                 gen_context, gen_messages, gen_words, chunks_read, backend_output,
                 failed_at, backend_calls, retrievals, abandoned_at>>

(* the next() after a done event: the generator returns, the for loop of
   generate() ends and so does generate() *)
PullEnd ==
  /\ handler_pc = "streaming"
  /\ gen_pc = "after_done"
  /\ gen_pc' = "returned"
  /\ handler_pc' = "finished"
  /\ UNCHANGED <<openai_client, call_vars, service_vars, store_vars, request_vars,
                 full_response, context_used, frames,
                 gen_context, gen_messages, gen_words, gen_i, chunks_read, events,
                 backend_output, failed_at, backend_calls, retrievals, abandoned_at>>

(* the generator is suspended at a yield inside the try block of lines
   236-261: a chunk of the backend's stream, or the done event after it *)
GenInTry ==
  /\ openai_client
  /\ failed_at = None
  /\ gen_pc \in {"in_stream", "after_done"}

(* The caller goes away and the transport closes generate(): GeneratorExit
   is raised at the yield where generate() is suspended (nothing if it has
   not started), and, generate() dropping it, at the yield where
   generate_chat_response_stream is suspended.  Either `except Exception`
   lets it pass and both generators end there.  A handler that caught it
   would run: the error frame in generate(), the fallback text in the
   generator. *)
Abandon ==
  /\ handler_pc = "streaming"
  /\ handler_pc' = "closed"
  /\ gen_pc' = "closed"
  /\ abandoned_at' = Some([events |-> Len(events), frames |-> Len(frames)])
  /\ IF frames # <<>> /\ ExceptCatches("GeneratorExit")
     THEN frames' = Append(frames, Frame("error", <<>>, <<>>, "GeneratorExit"))
     ELSE UNCHANGED frames
  /\ IF GenInTry /\ ExceptCatches("GeneratorExit")
     THEN events' = Append(events, Event("content", <<>>,
                             _generate_simple_response(user_message, gen_context)))
     ELSE UNCHANGED events
  /\ UNCHANGED <<openai_client, call_vars, service_vars, store_vars, request_vars,
                 full_response, context_used,
                 gen_context, gen_messages, gen_words, gen_i, chunks_read,
                 backend_output, failed_at, backend_calls, retrievals>>

NextStream ==
  \/ MissingMessage
  \/ ChatStreamRequest(Queries)
  \/ PullContext
  \/ PullGenerate
  \/ PullChunk
  \/ PullExceptDone
  \/ PullWord
  \/ PullEnd
  \/ Abandon

SpecStream == InitStream /\ [][NextStream]_vars

(***************************************************************************)
(* The Assembler on its own: one call of _build_messages on the matches    *)
(* of a retrieval and a history of n stored turns.                         *)
(***************************************************************************)
InitAssemble ==
  /\ openai_client = TRUE
  /\ rank_call = NoCall
  /\ answer_call = NoCall
  /\ cosine_call = NoCall
  /\ messages_call = NoCall
  /\ StreamIdle
  /\ ServiceIdle

Assemble ==
  /\ messages_call = NoCall
  /\ \E query \in Queries, documents \in KnowledgeBases(StorePool, MaxStored),
        n \in 0..MaxTurns :
          LET context == retrieve_relevant_context(query, documents,
                                                   DEFAULT_TOP_K, DEFAULT_THRESHOLD)
          IN  /\ context.status = "ok"
              /\ messages_call' =
                   [op |-> "build", query |-> query, context |-> context.value,
                    chat_history |-> History("s1", n),
                    result |-> _build_messages(query, context.value,
                                               History("s1", n))]
  /\ UNCHANGED <<openai_client, rank_call, answer_call, cosine_call, stream_vars,
                 service_vars>>

NextAssemble == Assemble

SpecAssemble == InitAssemble /\ [][NextAssemble]_vars

(***************************************************************************)
(* The chat endpoints on a stored history: one request, POST /api/chat or  *)
(* POST /api/chat/stream, on a store that holds the turns of earlier       *)
(* requests.                                                               *)
(***************************************************************************)
(* n stored turns, all of session s1 but the one at position `other`;
   the oldest turn is that of another session, or none is *)
Stored(n, other) == [k \in 1..n |-> Turn(IF k = other THEN "s2" ELSE "s1", k)]

StoredHistories == {Stored(n, other) : n \in 0..MaxTurns, other \in {0, 1}}

(* the knowledge base of these requests: one document *)
ChatStore == CHOOSE kb \in KnowledgeBases(StorePool, 1) :
               Len(kb) = 1 /\ kb[1].title = <<"H">>

InitChat ==
  /\ openai_client \in BOOLEAN
  /\ rank_call = NoCall
  /\ answer_call = NoCall
  /\ cosine_call = NoCall
  /\ messages_call = NoCall
  /\ knowledge_store = ChatStore
  /\ chat_history_db \in StoredHistories
  /\ sessions = {chat_history_db[k].session_id : k \in 1..Len(chat_history_db)}
  /\ RequestIdle
  /\ ServiceIdle

(* chat(), lines 210-250, for a body with a message: the session, the
   knowledge base and the history are read, generate_chat_response is
   called (with a backend it builds the request and calls create() once),
   the turn is saved and the answer returned; any exception on the way is
   answered with 500.  db.add_chat_message may raise. *)
Chat(queries) ==
  /\ handler_pc = "idle"
  /\ \E message \in queries, given \in GivenSessions, backend \in BackendResults,
        store_ok \in BOOLEAN :
       LET sid == IF given = None THEN NewSessionId ELSE given[1]
           history == get_chat_history(chat_history_db, sid, CHAT_HISTORY_LIMIT)
           answer == generate_chat_response(openai_client, message, knowledge_store,
                                            history, backend, DEFAULT_TOP_K)
       IN  /\ user_message' = message
           /\ session_id' = sid
           /\ sessions' = (IF given = None THEN sessions \cup {sid} ELSE sessions)
           /\ chat_history' = history
           /\ IF answer.status = "raise"
              THEN /\ http_response' = HttpJson(500, FALSE, <<>>, <<>>, answer.error)
                   /\ gen_messages' = None
                   /\ backend_calls' = 0
                   /\ UNCHANGED chat_history_db
              ELSE /\ gen_messages' =
                        (IF openai_client
                         THEN Some(_build_messages(message, answer.value.context, history))
                         ELSE None)
                   /\ backend_calls' = (IF openai_client THEN 1 ELSE 0)
                   /\ IF store_ok
                      THEN /\ chat_history_db' =
                                add_chat_message(chat_history_db, sid, message,
                                     answer.value.response, answer.value.context)
                           /\ http_response' =
                                HttpJson(200, TRUE, answer.value.response,
                                         answer.value.context, "none")
                      ELSE /\ http_response' =
                                HttpJson(500, FALSE, <<>>, <<>>, "StoreError")
                           /\ UNCHANGED chat_history_db
  /\ knowledge_base' = knowledge_store
  /\ db_at_request' = chat_history_db
  /\ retrievals' = 1
  /\ handler_pc' = "responded"
  /\ UNCHANGED <<openai_client, call_vars, service_vars, knowledge_store,
                 full_response, context_used, frames,
                 gen_pc, gen_context, gen_words, gen_i, chunks_read, events,
                 backend_output, failed_at, abandoned_at>>

NextChat ==
  \/ MissingMessage
  \/ Chat(Queries)
  \/ ChatStreamRequest(Queries)
  \/ PullContext
  \/ PullGenerate
  \/ PullChunk
  \/ PullExceptDone
  \/ PullWord
  \/ PullEnd
  \/ Abandon

SpecChat == InitChat /\ [][NextChat]_vars

(***************************************************************************)
(* The scraper (scraper_service.py) and the knowledge base collection      *)
(* (database.py).                                                          *)
(***************************************************************************)
(* embedding_model.encode on a stored text: a deterministic function of the
   text, or an error *)
encode(text) ==
  IF \E i \in DOMAIN text : text[i] = "unencodable" THEN Raise(EmbeddingError)
  ELSE Ok(<<Len(text), Cardinality({i \in DOMAIN text : IsSpace(text[i])})>>)

(* db.add_knowledge: a new document under an id the collection has not
   handed out before *)
add_knowledge(store, id, title, content, embedding, category) ==
  Append(store, [id |-> id, title |-> title, content |-> content,
                 category |-> category, embedding |-> Some(embedding)])

(* re.sub(r'\s+', ' ', text) *)
RECURSIVE CollapseWhitespace(_)
CollapseWhitespace(s) ==
  IF s = <<>> THEN <<>>
  ELSE IF IsSpace(Head(s)) THEN <<" ">> \o CollapseWhitespace(LStrip(s))
  ELSE <<Head(s)>> \o CollapseWhitespace(Tail(s))

(* characters outside [\w\s.,!?;:()\-'"] *)
SpecialChars == {"#", "*", "/", "@"}

_clean_text(text) ==
  Strip(SelectSeq(CollapseWhitespace(text), LAMBDA a : a \notin SpecialChars))

(* the site a scrape reads: three pages of one domain *)
Urls == {"/", "/a", "/b"}
ExternalHref == "ext"       \* a link to another domain
FragmentHref == "/b#x"      \* a link to a place in page /b
InvalidUrl == "nourl"       \* a string without scheme and netloc
HrefSets == {{}, {"/"}, {"/a"}, {FragmentHref}, {"/a", FragmentHref},
             {"/", "/a", ExternalHref}}
Sites == [Urls -> HrefSets]

_is_valid_url(url) == url \in Urls

(* the text of the page's body *)
PageBody(url) ==
  CASE url = "/" -> <<"H", "i", " ", "\n", "#", "1">>
    [] url = "/a" -> <<"c", "a", "t", "\n">>
    [] url = "/b" -> <<" ", "*", "\n">>

(* _extract_title: the stripped <title>, or the last segment of the URL's
   path, or its netloc *)
_extract_title(url) ==
  CASE url = "/" -> Strip(<<" ", "H", "o", "m", "e", "\n">>)
    [] url = "/a" -> <<"a">>
    [] url = "/b" -> <<"b">>

(* the lines of a text *)
SplitLines(s) ==
  LET breaks == SelectSeq([i \in 1..Len(s) |-> i], LAMBDA i : s[i] = "\n")
  IN  [k \in 1..(Len(breaks) + 1) |->
         SubSeq(s, IF k = 1 THEN 1 ELSE breaks[k - 1] + 1,
                   IF k = Len(breaks) + 1 THEN Len(s) ELSE breaks[k] - 1)]

(* _extract_content, lines 285-292: the stripped non-empty lines, joined
   and cleaned *)
_extract_content(url) ==
  LET stripped == [k \in DOMAIN SplitLines(PageBody(url)) |->
                     Strip(SplitLines(PageBody(url))[k])]
      lines == SelectSeq(stripped, LAMBDA line : line # <<>>)
  IN  _clean_text(Join(<<"\n">>, lines))

(* _extract_links: the links of the same domain, without fragment *)
_extract_links(hrefs) ==
  {IF href = FragmentHref THEN "/b" ELSE href :
     href \in {h \in hrefs : h # ExternalHref}}

(* list(links): the elements of the set in some order *)
Orders(S) ==
  {order \in [1..Cardinality(S) -> S] : {order[i] : i \in DOMAIN order} = S}

PageResult(url, depth) ==
  [title |-> _extract_title(url), content |-> _extract_content(url),
   source_type |-> "url", source_url |-> url, depth |-> Some(depth)]

ErrorResult(url) ==
  [title |-> <<"Error:", " ", url>>,
   content |-> <<"Failed", " ", "to", " ", "scrape:", " ", "ConnectionError">>,
   source_type |-> "url", source_url |-> url, depth |-> None]

MaxDepth == 2     \* largest max_depth of a scrape request

ScrapeCalls ==
  [url : Urls, max_depth : (0 - 1)..MaxDepth, extract_links : BOOLEAN, site : Sites]

(* scrape_url, lines 445-464: a request without url or with a string that
   is no URL *)
ScrapeUrlRejected ==
  /\ scrape_pc = "idle"
  /\ \E url \in {None, Some(InvalidUrl)} :
       kb_call' = [op |-> "scrape_url", url |-> url, status |-> 400, ids |-> <<>>]
  /\ scrape_pc' = "responded"
  /\ UNCHANGED <<openai_client, call_vars, parked, stream_vars, ids_issued, scrape_call,
                 visited_urls, urls_to_visit, scrape_results, fetched>>

(* scrape_url, lines 445-467, and scrape_website, lines 82-91 *)
ScrapeUrlRequest(calls) ==
  /\ scrape_pc = "idle"
  /\ \E call \in calls :
       /\ _is_valid_url(call.url)
       /\ scrape_call' = call
       /\ urls_to_visit' = <<<<call.url, 0>>>>
  /\ visited_urls' = {}
  /\ scrape_results' = <<>>
  /\ scrape_pc' = "loop"
  /\ UNCHANGED <<openai_client, call_vars, parked, stream_vars, kb_vars, fetched>>

(* lines 93-97: an iteration that takes a visited or too deep URL off the
   list *)
ScrapeSkip ==
  /\ scrape_pc = "loop"
  /\ urls_to_visit # <<>>
  /\ LET current_url == Head(urls_to_visit)[1]
         depth == Head(urls_to_visit)[2]
     IN  current_url \in visited_urls \/ depth > scrape_call.max_depth
  /\ urls_to_visit' = Tail(urls_to_visit)
  /\ UNCHANGED <<openai_client, call_vars, parked, stream_vars, kb_vars, scrape_pc,
                 scrape_call, visited_urls, scrape_results, fetched>>

(* An iteration that fetches without recording the visit. *)
ScrapeFetchForgetsVisit ==
  /\ scrape_pc = "loop"
  /\ urls_to_visit # <<>>
  /\ LET current_url == Head(urls_to_visit)[1]
         depth == Head(urls_to_visit)[2]
     IN  /\ ~(current_url \in visited_urls \/ depth > scrape_call.max_depth)
         /\ visited_urls' = visited_urls
         /\ fetched' = Append(fetched, <<current_url, depth>>)
         /\ \/ /\ scrape_results' = Append(scrape_results, ErrorResult(current_url))
               /\ urls_to_visit' = Tail(urls_to_visit)
            \/ /\ scrape_results' =
                    (IF _extract_content(current_url) # <<>>
                     THEN Append(scrape_results, PageResult(current_url, depth))
                     ELSE scrape_results)
               /\ IF scrape_call.extract_links /\ depth < scrape_call.max_depth
                  THEN \E links \in Orders(_extract_links(scrape_call.site[current_url])) :
                         urls_to_visit' = Tail(urls_to_visit) \o
                           [k \in DOMAIN SelectSeq(links, LAMBDA link : link \notin visited_urls')
                              |-> <<SelectSeq(links, LAMBDA link : link \notin visited_urls')[k],
                                    depth + 1>>]
                  ELSE urls_to_visit' = Tail(urls_to_visit)
  /\ UNCHANGED <<openai_client, call_vars, parked, stream_vars, kb_vars, scrape_pc,
                 scrape_call>>

(* lines 93-147: an iteration that fetches the URL; requests.get raises a
   RequestException, or the page is read *)
ScrapeFetch ==
  /\ scrape_pc = "loop"
  /\ urls_to_visit # <<>>
  /\ LET current_url == Head(urls_to_visit)[1]
         depth == Head(urls_to_visit)[2]
     IN  /\ ~(current_url \in visited_urls \/ depth > scrape_call.max_depth)
         /\ visited_urls' = visited_urls \cup {current_url}
         /\ fetched' = Append(fetched, <<current_url, depth>>)
         /\ \/ /\ scrape_results' = Append(scrape_results, ErrorResult(current_url))
               /\ urls_to_visit' = Tail(urls_to_visit)
            \/ /\ scrape_results' =
                    (IF _extract_content(current_url) # <<>>
                     THEN Append(scrape_results, PageResult(current_url, depth))
                     ELSE scrape_results)
               /\ IF scrape_call.extract_links /\ depth < scrape_call.max_depth
                  THEN \E links \in Orders(_extract_links(scrape_call.site[current_url])) :
                         urls_to_visit' = Tail(urls_to_visit) \o
                           [k \in DOMAIN SelectSeq(links, LAMBDA link : link \notin visited_urls')
                              |-> <<SelectSeq(links, LAMBDA link : link \notin visited_urls')[k],
                                    depth + 1>>]
                  ELSE urls_to_visit' = Tail(urls_to_visit)
  /\ UNCHANGED <<openai_client, call_vars, parked, stream_vars, kb_vars, scrape_pc,
                 scrape_call>>

(* lines 93 and 149: the list is empty, scrape_website returns results *)
ScrapeReturn ==
  /\ scrape_pc = "loop"
  /\ urls_to_visit = <<>>
  /\ scrape_pc' = "returned"
  /\ UNCHANGED <<openai_client, call_vars, parked, stream_vars, kb_vars, scrape_call,
                 visited_urls, urls_to_visit, scrape_results, fetched>>

(* scrape_url, lines 476-495: the entries added for the first n results,
   or the error of the first embedding that fails *)
RECURSIVE IngestResults(_, _, _, _)
IngestResults(store, issued, pages, category) ==
  IF pages = <<>> THEN [store |-> store, issued |-> issued, status |-> 201]
  ELSE LET embedding == encode(Head(pages).content)
       IN  IF embedding.status = "raise"
           THEN [store |-> store, issued |-> issued, status |-> 500]
           ELSE IngestResults(add_knowledge(store, issued + 1, Head(pages).title,
                                            Head(pages).content, embedding.value,
                                            category),
                              issued + 1, Tail(pages), category)

(* scrape_url, lines 469-508 *)
ScrapeUrlRespond ==
  /\ scrape_pc = "returned"
  /\ scrape_pc' = "responded"
  /\ IF scrape_results = <<>>
     THEN /\ kb_call' = [op |-> "scrape_url", url |-> Some(scrape_call.url),
                         status |-> 400, ids |-> <<>>]
          /\ UNCHANGED <<knowledge_store, ids_issued>>
     ELSE LET done == IngestResults(knowledge_store, ids_issued, scrape_results,
                                    Some(<<"general">>))
          IN  /\ knowledge_store' = done.store
              /\ ids_issued' = done.issued
              /\ kb_call' = [op |-> "scrape_url", url |-> Some(scrape_call.url),
                             status |-> done.status,
                             ids |-> [k \in 1..(done.issued - ids_issued) |->
                                        ids_issued + k]]
  /\ UNCHANGED <<openai_client, call_vars, parked, chat_history_db, sessions, handler_vars,
                 gen_vars, scrape_call, visited_urls, urls_to_visit,
                 scrape_results, fetched>>

InitScrape ==
  /\ openai_client = FALSE
  /\ rank_call = NoCall
  /\ answer_call = NoCall
  /\ cosine_call = NoCall
  /\ messages_call = NoCall
  /\ StreamIdle
  /\ ServiceIdle

NextScrape ==
  \/ ScrapeUrlRejected
  \/ ScrapeUrlRequest(ScrapeCalls)
  \/ ScrapeSkip
  \/ ScrapeFetch
  \/ ScrapeReturn
  \/ ScrapeUrlRespond

(* the loop and the endpoint run on: no step that can be taken waits for
   ever *)
SpecScrape == InitScrape /\ [][NextScrape]_vars /\ WF_vars(NextScrape)

(***************************************************************************)
(* The knowledge endpoints (app.py) on the knowledge base collection.      *)
(***************************************************************************)
MaxIssued == 2    \* most document ids the collection hands out

(* a member of the request's JSON object: absent, null or a string *)
Absent == [kind |-> "absent", text |-> <<>>]
Null == [kind |-> "null", text |-> <<>>]
Str(text) == [kind |-> "str", text |-> text]

(* data.get(key) *)
JsonGet(member) == IF member.kind = "str" THEN Some(member.text) ELSE None

(* data.get(key, default) *)
JsonGetDefault(member, default) ==
  IF member.kind = "absent" THEN Some(default) ELSE JsonGet(member)

(* rag_service.generate_embedding(content) on what the request carries:
   encode raises a TypeError on null *)
generate_embedding_content(content) ==
  IF content = None THEN Raise("TypeError") ELSE encode(content[1])

get_knowledge_by_id(store, knowledge_id) ==
  LET found == SelectSeq(store, LAMBDA doc : doc.id = knowledge_id)
  IN  IF found = <<>> THEN None ELSE Some(found[1])

(* db.update_knowledge: the collection after the call, and what it returns *)
update_knowledge(store, knowledge_id, title, content, embedding, category) ==
  IF get_knowledge_by_id(store, knowledge_id) = None
  THEN [store |-> store, result |-> FALSE]
  ELSE IF title = None /\ content = None /\ embedding = None /\ category = None
  THEN [store |-> store, result |-> FALSE]
  ELSE [store |->
          [i \in DOMAIN store |->
             IF store[i].id # knowledge_id THEN store[i]
             ELSE [id |-> store[i].id,
                   title |-> IF title # None THEN title[1] ELSE store[i].title,
                   content |-> IF content # None THEN content[1]
                               ELSE store[i].content,
                   category |-> IF category # None THEN category
                                ELSE store[i].category,
                   embedding |-> IF embedding # None THEN embedding
                                 ELSE store[i].embedding]],
        result |-> TRUE]

(* A delete that reports success whether or not the document existed. *)
delete_knowledge_always_true(store, knowledge_id) ==
  [store |-> SelectSeq(store, LAMBDA doc : doc.id # knowledge_id),
   result |-> TRUE]

(* db.delete_knowledge: the collection after the call, and what it returns *)
delete_knowledge(store, knowledge_id) ==
  IF get_knowledge_by_id(store, knowledge_id) # None
  THEN [store |-> SelectSeq(store, LAMBDA doc : doc.id # knowledge_id),
        result |-> TRUE]
  ELSE [store |-> store, result |-> FALSE]

(* what a knowledge request returned *)
KbResponse(op, knowledge_id, status, given, knowledge) ==
  [op |-> op, id |-> knowledge_id, status |-> status, given |-> given,
   knowledge |-> knowledge]

KnowledgeIds == 1..MaxIssued

AddRequests ==
  [title : {Absent, Str(<<"T">>)},
   content : {Absent, Null, Str(<<"a", " ", "b">>), Str(<<"unencodable">>)},
   category : {Str(<<"g">>)}]

UpdateRequests ==
  [title : {Absent, Str(<<"U">>)},
   content : {Absent, Null, Str(<<>>), Str(<<"unencodable">>)},
   category : {Absent, Null}]

(* add_knowledge (POST /api/knowledge), lines 93-130 *)
AddKnowledge ==
  /\ ids_issued < MaxIssued
  /\ \E data \in AddRequests :
       IF data.title.kind = "absent" \/ data.content.kind = "absent"
       THEN /\ kb_call' = KbResponse("add", 0, 400, None, None)
            /\ UNCHANGED <<knowledge_store, ids_issued>>
       ELSE LET title == data.title.text
                content == JsonGet(data.content)
                category == JsonGetDefault(data.category, <<"general">>)
                embedding == generate_embedding_content(content)
            IN  IF embedding.status = "raise"
                THEN /\ kb_call' = KbResponse("add", 0, 500, None, None)
                     /\ UNCHANGED <<knowledge_store, ids_issued>>
                ELSE /\ knowledge_store' =
                          add_knowledge(knowledge_store, ids_issued + 1, title,
                                        content[1], embedding.value, category)
                     /\ ids_issued' = ids_issued + 1
                     /\ kb_call' =
                          KbResponse("add", ids_issued + 1, 201,
                                     Some([title |-> title, content |-> content[1],
                                           category |-> category]),
                                     None)
  /\ UNCHANGED <<openai_client, call_vars, parked, chat_history_db, sessions, handler_vars,
                 gen_vars, scrape_vars>>

(* An update that regenerates the embedding only for a non-empty content. *)
UpdateKnowledgeIfTruthy ==
  /\ \E knowledge_id \in KnowledgeIds, data \in UpdateRequests :
       IF data = [title |-> Absent, content |-> Absent, category |-> Absent]
       THEN /\ kb_call' = KbResponse("update", knowledge_id, 400, None, None)
            /\ UNCHANGED knowledge_store
       ELSE LET embedding ==
                  IF data.content.kind = "str" /\ data.content.text # <<>>
                  THEN generate_embedding_content(JsonGet(data.content))
                  ELSE Ok(None)
            IN  IF embedding.status = "raise"
                THEN /\ kb_call' = KbResponse("update", knowledge_id, 500, None, None)
                     /\ UNCHANGED knowledge_store
                ELSE LET done ==
                           update_knowledge(knowledge_store, knowledge_id,
                               JsonGet(data.title), JsonGet(data.content),
                               IF data.content.kind = "str" /\ data.content.text # <<>>
                               THEN Some(embedding.value) ELSE None,
                               JsonGet(data.category))
                     IN  /\ knowledge_store' = done.store
                         /\ kb_call' =
                              KbResponse("update", knowledge_id,
                                         IF done.result THEN 200 ELSE 404, None, None)
  /\ UNCHANGED <<openai_client, call_vars, parked, chat_history_db, sessions, handler_vars,
                 gen_vars, ids_issued, scrape_vars>>

(* update_knowledge (PUT /api/knowledge/<knowledge_id>), lines 132-172 *)
UpdateKnowledge ==
  /\ \E knowledge_id \in KnowledgeIds, data \in UpdateRequests :
       IF data = [title |-> Absent, content |-> Absent, category |-> Absent]
       THEN /\ kb_call' = KbResponse("update", knowledge_id, 400, None, None)
            /\ UNCHANGED knowledge_store
       ELSE LET embedding ==
                  IF data.content.kind # "absent"
                  THEN generate_embedding_content(JsonGet(data.content))
                  ELSE Ok(None)
            IN  IF embedding.status = "raise"
                THEN /\ kb_call' = KbResponse("update", knowledge_id, 500, None, None)
                     /\ UNCHANGED knowledge_store
                ELSE LET done ==
                           update_knowledge(knowledge_store, knowledge_id,
                               JsonGet(data.title), JsonGet(data.content),
                               IF data.content.kind # "absent"
                               THEN Some(embedding.value) ELSE None,
                               JsonGet(data.category))
                     IN  /\ knowledge_store' = done.store
                         /\ kb_call' =
                              KbResponse("update", knowledge_id,
                                         IF done.result THEN 200 ELSE 404, None, None)
  /\ UNCHANGED <<openai_client, call_vars, parked, chat_history_db, sessions, handler_vars,
                 gen_vars, ids_issued, scrape_vars>>

(* delete_knowledge (DELETE /api/knowledge/<knowledge_id>), lines 174-195 *)
DeleteKnowledge ==
  /\ \E knowledge_id \in KnowledgeIds :
       LET done == delete_knowledge(knowledge_store, knowledge_id)
       IN  /\ knowledge_store' = done.store
           /\ kb_call' = KbResponse("delete", knowledge_id,
                                    IF done.result THEN 200 ELSE 404, None, None)
  /\ UNCHANGED <<openai_client, call_vars, parked, chat_history_db, sessions, handler_vars,
                 gen_vars, ids_issued, scrape_vars>>

(* get_knowledge_by_id (GET /api/knowledge/<knowledge_id>), lines 72-91 *)
GetKnowledge ==
  /\ \E knowledge_id \in KnowledgeIds :
       LET knowledge == get_knowledge_by_id(knowledge_store, knowledge_id)
       IN  kb_call' = KbResponse("get", knowledge_id,
                                 IF knowledge # None THEN 200 ELSE 404, None,
                                 knowledge)
  /\ UNCHANGED <<openai_client, call_vars, parked, stream_vars, ids_issued, scrape_vars>>

MIN_TEXT_LENGTH == 10
TITLE_MAX_LENGTH == 50

(* validate_source('text', source_data), lines 411-416 *)
validate_text(source_data) ==
  /\ source_data # None
  /\ source_data[1] # <<>>
  /\ Strip(source_data[1]) # <<>>
  /\ Len(source_data[1]) >= MIN_TEXT_LENGTH

(* _generate_title_from_text: the text before the first '.', cut after
   max_length characters *)
_generate_title_from_text(text) ==
  LET dots == SelectSeq([i \in 1..Len(text) |-> i], LAMBDA i : text[i] = ".")
      first_sentence == IF dots = <<>> THEN text ELSE SubSeq(text, 1, dots[1] - 1)
  IN  IF Len(first_sentence) > TITLE_MAX_LENGTH
      THEN PySlicePrefix(first_sentence, TITLE_MAX_LENGTH) \o <<"...">>
      ELSE first_sentence

(* process_text_content: the title and the cleaned content, or ValueError *)
process_text_content(text, title) ==
  IF text = <<>> \/ Strip(text) = <<>> THEN Raise(ValueError)
  ELSE Ok([title |-> IF title = None \/ title = Some(<<>>)
                     THEN _generate_title_from_text(_clean_text(text))
                     ELSE title[1],
           content |-> _clean_text(text)])

ScrapeTextRequests ==
  [title : {Absent},
   content : {Absent, Null, Str(<<"h", "i">>),
              Str([i \in 1..MIN_TEXT_LENGTH |-> " "]),
              Str(<<"H", "e", "l", "l", "o", " ", " ", "#", "w", ".", "x", "\n">>)}]

(* scrape_text (POST /api/scraper/text), lines 387-439 *)
ScrapeText ==
  /\ ids_issued < MaxIssued
  /\ \E data \in ScrapeTextRequests :
       IF data.content.kind = "absent" \/ ~validate_text(JsonGet(data.content))
       THEN /\ kb_call' = KbResponse("scrape_text", 0, 400, None, None)
            /\ UNCHANGED <<knowledge_store, ids_issued>>
       ELSE LET result == process_text_content(data.content.text, JsonGet(data.title))
                embedding == IF result.status = "raise" THEN result
                             ELSE encode(result.value.content)
            IN  IF embedding.status = "raise"
                THEN /\ kb_call' = KbResponse("scrape_text", 0, 500, None, None)
                     /\ UNCHANGED <<knowledge_store, ids_issued>>
                ELSE /\ knowledge_store' =
                          add_knowledge(knowledge_store, ids_issued + 1,
                                        result.value.title, result.value.content,
                                        embedding.value, Some(<<"general">>))
                     /\ ids_issued' = ids_issued + 1
                     /\ kb_call' = KbResponse("scrape_text", ids_issued + 1, 201,
                                              None, None)
  /\ UNCHANGED <<openai_client, call_vars, parked, chat_history_db, sessions, handler_vars,
                 gen_vars, scrape_vars>>

(* the uploaded files: a text file, an empty text file, a picture, and an
   upload without a file name *)
Uploads ==
  { [filename |-> "my_notes.txt", content |-> <<"t", "o", "\n", "\n", "d", "o", "@">>],
    [filename |-> "my_notes.txt", content |-> <<>>],
    [filename |-> "photo.png", content |-> <<"@">>],
    [filename |-> "", content |-> <<>>] }

(* validate_source('file', filename), lines 423-432 *)
validate_file(filename) == filename = "my_notes.txt"

(* process_file, lines 172-209, for a text file: the title from the file
   name and the cleaned content, or ValueError *)
process_file(file_content, filename) ==
  IF file_content = <<>> THEN Raise(ValueError)
  ELSE Ok([title |-> <<"My", " ", "Notes">>, content |-> _clean_text(file_content)])

(* scrape_file (POST /api/scraper/file), lines 510-583 *)
ScrapeFile ==
  /\ ids_issued < MaxIssued
  /\ \E file \in Uploads, custom_title \in {None, Some(<<>>)} :
       IF file.filename = "" \/ ~validate_file(file.filename)
       THEN /\ kb_call' = KbResponse("scrape_file", 0, 400, None, None)
            /\ UNCHANGED <<knowledge_store, ids_issued>>
       ELSE LET result == process_file(file.content, file.filename)
                embedding == IF result.status = "raise" THEN result
                             ELSE encode(result.value.content)
            IN  IF embedding.status = "raise"
                THEN /\ kb_call' = KbResponse("scrape_file", 0, 500, None, None)
                     /\ UNCHANGED <<knowledge_store, ids_issued>>
                ELSE /\ knowledge_store' =
                          add_knowledge(knowledge_store, ids_issued + 1,
                                        IF custom_title # None /\ custom_title[1] # <<>>
                                        THEN custom_title[1]
                                        ELSE result.value.title,
                                        result.value.content,
                                        embedding.value, Some(<<"general">>))
                     /\ ids_issued' = ids_issued + 1
                     /\ kb_call' = KbResponse("scrape_file", ids_issued + 1, 201,
                                              None, None)
  /\ UNCHANGED <<openai_client, call_vars, parked, chat_history_db, sessions, handler_vars,
                 gen_vars, scrape_vars>>

InitKnowledge ==
  /\ openai_client = FALSE
  /\ rank_call = NoCall
  /\ answer_call = NoCall
  /\ cosine_call = NoCall
  /\ messages_call = NoCall
  /\ StreamIdle
  /\ ServiceIdle

NextKnowledge ==
  \/ AddKnowledge
  \/ UpdateKnowledge
  \/ DeleteKnowledge
  \/ GetKnowledge
  \/ ScrapeText
  \/ ScrapeFile

SpecKnowledge == InitKnowledge /\ [][NextKnowledge]_vars

(***************************************************************************)
(* Two requests at a time: the server handles each request in a thread of  *)
(* its own (app.run).  The request variables are the locals of the thread  *)
(* that is running; the collections and the RAG service are shared.        *)
(***************************************************************************)
(* A switch of threads with one response buffer for all requests. *)
SwitchSharedResponse ==
  /\ parked' = Locals
  /\ handler_pc' = parked.handler_pc
  /\ user_message' = parked.user_message
  /\ session_id' = parked.session_id
  /\ knowledge_base' = parked.knowledge_base
  /\ chat_history' = parked.chat_history
  /\ http_response' = parked.http_response
  /\ db_at_request' = parked.db_at_request
  /\ context_used' = parked.context_used
  /\ frames' = parked.frames
  /\ gen_pc' = parked.gen_pc
  /\ gen_context' = parked.gen_context
  /\ gen_messages' = parked.gen_messages
  /\ gen_words' = parked.gen_words
  /\ gen_i' = parked.gen_i
  /\ chunks_read' = parked.chunks_read
  /\ events' = parked.events
  /\ backend_output' = parked.backend_output
  /\ failed_at' = parked.failed_at
  /\ backend_calls' = parked.backend_calls
  /\ retrievals' = parked.retrievals
  /\ abandoned_at' = parked.abandoned_at
  /\ UNCHANGED <<openai_client, call_vars, store_vars, kb_vars, scrape_vars,
                 full_response>>

(* the running thread is suspended and the other one runs on *)
Switch ==
  /\ parked' = Locals
  /\ handler_pc' = parked.handler_pc
  /\ user_message' = parked.user_message
  /\ session_id' = parked.session_id
  /\ knowledge_base' = parked.knowledge_base
  /\ chat_history' = parked.chat_history
  /\ http_response' = parked.http_response
  /\ db_at_request' = parked.db_at_request
  /\ full_response' = parked.full_response
  /\ context_used' = parked.context_used
  /\ frames' = parked.frames
  /\ gen_pc' = parked.gen_pc
  /\ gen_context' = parked.gen_context
  /\ gen_messages' = parked.gen_messages
  /\ gen_words' = parked.gen_words
  /\ gen_i' = parked.gen_i
  /\ chunks_read' = parked.chunks_read
  /\ events' = parked.events
  /\ backend_output' = parked.backend_output
  /\ failed_at' = parked.failed_at
  /\ backend_calls' = parked.backend_calls
  /\ retrievals' = parked.retrievals
  /\ abandoned_at' = parked.abandoned_at
  /\ UNCHANGED <<openai_client, call_vars, store_vars, kb_vars, scrape_vars>>

(* the store the requests find: one document and one turn of session s1 *)
InitService ==
  /\ openai_client \in BOOLEAN
  /\ rank_call = NoCall
  /\ answer_call = NoCall
  /\ cosine_call = NoCall
  /\ messages_call = NoCall
  /\ knowledge_store = ChatStore
  /\ chat_history_db = Stored(1, 0)
  /\ sessions = {chat_history_db[k].session_id : k \in 1..Len(chat_history_db)}
  /\ RequestIdle
  /\ ServiceIdle

(* the questions asked of this server *)
ServiceQueries == {"hours", "unencodable"}

NextService ==
  \/ Chat(ServiceQueries)
  \/ ChatStreamRequest(ServiceQueries)
  \/ PullContext
  \/ PullGenerate
  \/ PullChunk
  \/ PullExceptDone
  \/ PullWord
  \/ PullEnd
  \/ Switch

SpecService == InitService /\ [][NextService]_vars

(***************************************************************************)
(* Properties of ranking (checked under SpecRank).                         *)
(***************************************************************************)
RankDone == rank_call.op = "retrieve"
RankOk == RankDone /\ rank_call.result.status = "ok"
RankResult == rank_call.result.value
RankQueryEncodable == RankDone /\ generate_embedding(rank_call.query).status = "ok"
RankQueryVector == generate_embedding(rank_call.query).value

(* a document that carries a non-empty embedding *)
HasEmbedding(entry) == entry.embedding # None /\ entry.embedding[1] # <<>>

(* the score of the i-th input document, defined when it can be compared *)
RankScore(i) ==
  cosine_similarity(RankQueryVector, rank_call.knowledge_base[i].embedding[1]).value

(* the positions of the input documents that qualify for the result *)
RankQualifying ==
  {i \in 1..Len(rank_call.knowledge_base) :
     /\ HasEmbedding(rank_call.knowledge_base[i])
     /\ RatGE(RankScore(i), rank_call.threshold)}

RankReturnedIds == {RankResult[i].id : i \in 1..Len(RankResult)}

RankScoresAboveThreshold ==
  \A i \in 1..Len(RankResult) : RatGE(RankResult[i].similarity, rank_call.threshold)

(* C7 (as claimed): for every integer top_k, 0 and negative values included,
   the list returned by retrieve_relevant_context has at most top_k elements
   and every returned match has a score of at least the threshold. *)
C7_LengthWithinAnyTopK ==
  RankOk => /\ Len(RankResult) <= rank_call.top_k
            /\ RankScoresAboveThreshold

(* C7 (amended): for every top_k >= 0 the returned list has at most top_k
   elements, and for every integer top_k every returned match has a score of
   at least the threshold. *)
C7_LengthWithinNonNegativeTopK ==
  RankOk => /\ rank_call.top_k >= 0 => Len(RankResult) <= rank_call.top_k
            /\ RankScoresAboveThreshold

(* a call that truncated: more documents qualify than top_k >= 1 allows, and
   some compared document fell below the threshold *)
C7_Witness ==
  /\ RankOk
  /\ rank_call.top_k >= 1
  /\ Len(RankResult) = rank_call.top_k
  /\ Cardinality(RankQualifying) > rank_call.top_k
  /\ \E i \in 1..Len(rank_call.knowledge_base) :
        /\ HasEmbedding(rank_call.knowledge_base[i])
        /\ ~RatGE(RankScore(i), rank_call.threshold)

(* C8: the returned list is ordered by score non-increasing, two returned
   matches of equal score stand in the order of their documents in the input
   list (ids are input positions), and no qualifying document left out by the
   truncation has a strictly higher score than a returned one. *)
C8_SortedStableTopScores ==
  RankOk =>
    /\ \A i, j \in 1..Len(RankResult) :
          i < j => /\ RatGE(RankResult[i].similarity, RankResult[j].similarity)
                   /\ RatEQ(RankResult[i].similarity, RankResult[j].similarity)
                        => RankResult[i].id < RankResult[j].id
    /\ \A q \in RankQualifying \ RankReturnedIds :
          \A i \in 1..Len(RankResult) : ~RatGT(RankScore(q), RankResult[i].similarity)

(* two returned matches tie, and the sort moved them in front of a
   qualifying document that stood before them in the input and is cut off *)
C8_Witness ==
  /\ RankOk
  /\ \E i, j \in 1..Len(RankResult) :
        /\ i < j
        /\ RatEQ(RankResult[i].similarity, RankResult[j].similarity)
        /\ \E q \in RankQualifying \ RankReturnedIds : q < RankResult[i].id

(* C9: retrieve_relevant_context returns the empty list, without error, on
   an empty document list and (given the query's vector) on a list in which
   no document has an embedding; a document whose embedding is absent or
   empty never appears in the result, and the outcome is the one obtained
   from the list with those documents removed. *)
C9_NoEmbeddingSkipped ==
  RankDone =>
    /\ rank_call.knowledge_base = <<>> => rank_call.result = Ok(<<>>)
    /\ RankQueryEncodable =>
         /\ (\A i \in 1..Len(rank_call.knowledge_base) :
                ~HasEmbedding(rank_call.knowledge_base[i]))
               => rank_call.result = Ok(<<>>)
         /\ RankOk => \A i \in 1..Len(RankResult) :
                         HasEmbedding(rank_call.knowledge_base[RankResult[i].id])
         /\ rank_call.result =
               retrieve_relevant_context(rank_call.query,
                                         SelectSeq(rank_call.knowledge_base, HasEmbedding),
                                         rank_call.top_k, rank_call.threshold)

(* a document without the key and one with an empty list both stand before
   a document that is returned *)
C9_Witness ==
  /\ RankOk
  /\ \E i, j, k \in 1..Len(rank_call.knowledge_base) :
        /\ rank_call.knowledge_base[i].embedding = None
        /\ rank_call.knowledge_base[j].embedding = Some(<<>>)
        /\ i < k /\ j < k
        /\ k \in RankReturnedIds

(* C10 (as claimed): ranking never fails; given the query's vector, every
   document list, one with an embedding of another dimensionality included,
   yields a list, and only documents whose embedding has the query vector's
   dimensionality are returned. *)
C10_RankingNeverFails ==
  RankQueryEncodable =>
    /\ rank_call.result.status = "ok"
    /\ \A i \in 1..Len(RankResult) :
          Len(rank_call.knowledge_base[RankResult[i].id].embedding[1])
            = Len(RankQueryVector)

(***************************************************************************)
(* Properties of non-streaming generation (checked under SpecAnswer).      *)
(***************************************************************************)
AnswerOk == answer_call.op = "answer" /\ answer_call.result.status = "ok"
BackendCallFailed == answer_call.backend.kind # "text"

(* C6: in non-streaming generation a failure of the backend call (the call
   raising, a result without choices, a result whose content is None) is not
   surfaced: the answer is the fallback text for the ranked matches, the very
   text a service without a backend returns for the same input. *)
C6_BackendFailureMasked ==
  (AnswerOk /\ openai_client /\ BackendCallFailed) =>
    /\ answer_call.result.value.response
         = _generate_simple_response(answer_call.query, answer_call.result.value.context)
    /\ answer_call.result
         = generate_chat_response(FALSE, answer_call.query, answer_call.knowledge_base,
                                  answer_call.chat_history, answer_call.backend,
                                  DEFAULT_TOP_K)

(* a backend-mode call whose result has no choices, answered from two matches *)
C6_Witness ==
  /\ AnswerOk /\ openai_client
  /\ answer_call.backend.kind = "no_choices"
  /\ Len(answer_call.result.value.context) = 2
  /\ answer_call.result.value.response # <<>>

(***************************************************************************)
(* Properties of streaming (checked under SpecStream).                     *)
(***************************************************************************)
StreamFinished == handler_pc = "finished"
GeneratorDone == events # <<>> /\ events[Len(events)].type = "done"
RetrievalRaised == gen_pc = "raised"

EventContents == [i \in 1..Len(events) |-> events[i].content]
(* the Content fragments of the run, concatenated in emission order *)
StreamedText == Concat(EventContents)

(* the fallback text for the matches of the run's Context event *)
FallbackText == _generate_simple_response(user_message, events[1].context)

(* the events a service without backend yields for a text: one Content per
   field of split(' '), each but the last with its space, then Done *)
WordEvents(text) ==
  LET words == SplitOnSpace(text)
  IN  [i \in 1..(Len(words) + 1) |->
         IF i <= Len(words)
         THEN Event("content", <<>>,
                    words[i] \o (IF i < Len(words) THEN <<" ">> ELSE <<>>))
         ELSE Event("done", <<>>, <<>>)]

FramesOfType(types) == {i \in 1..Len(frames) : frames[i].type \in types}
EventsOfType(types) == {i \in 1..Len(events) : events[i].type \in types}

(* C1 (as claimed): in every run of generate_chat_response_stream the first
   event emitted is a Context event, exactly one Context event is emitted in
   the whole run and no Content event precedes it; the same on the wire
   (init frame). *)
C1_ContextFirstInEveryRun ==
  /\ events # <<>> => events[1].type = "context"
  /\ frames # <<>> => frames[1].type = "init"
  /\ \A i \in EventsOfType({"content"}) : \E j \in EventsOfType({"context"}) : j < i
  /\ StreamFinished => /\ Cardinality(EventsOfType({"context"})) = 1
                       /\ Cardinality(FramesOfType({"init"})) = 1

(* C1 (amended): in every run in which retrieval does not raise, in backend
   mode, fallback mode and on a backend failure alike, the first event is a
   Context event, it is the only one, and no Content event precedes it; a
   run in which retrieval raises emits no Context and no Content event, its
   only frame is the error frame. *)
C1_ContextFirstUnlessRetrievalRaises ==
  /\ EventsOfType({"context"}) = (IF events = <<>> THEN {} ELSE {1})
  /\ IF RetrievalRaised
     THEN /\ events = <<>>
          /\ Len(frames) = 1 /\ frames[1].type = "error"
     ELSE /\ FramesOfType({"init"}) = (IF frames = <<>> THEN {} ELSE {1})
          /\ StreamFinished => /\ Len(events) >= 1
                               /\ frames[1].context = events[1].context

(* a backend-mode run that streamed a fragment, fell back and ended *)
C1_Witness ==
  /\ StreamFinished /\ gen_pc = "returned"
  /\ openai_client
  /\ failed_at # None /\ failed_at[1] >= 2
  /\ frames[1].type = "init" /\ frames[1].context # <<>>

(* C2: a run consumed to its end has exactly one terminal frame, done or
   error and never both, and nothing follows it, whatever the outcome
   (retrieval raising, backend success, backend failure before or after a
   fragment, the save raising on Done); the generator itself yields Done at
   most once, as its last event, and not at all when it raises. *)
C2_ExactlyOneTerminal ==
  /\ \A i \in FramesOfType({"done", "error"}) : i = Len(frames)
  /\ \A i \in EventsOfType({"done"}) : i = Len(events)
  /\ StreamFinished => /\ Cardinality(FramesOfType({"done", "error"})) = 1
                       /\ RetrievalRaised => EventsOfType({"done"}) = {}
                       /\ ~RetrievalRaised => Cardinality(EventsOfType({"done"})) = 1
  /\ gen_pc = "returned" => GeneratorDone

(* the save raised on Done after the backend had failed in mid-stream *)
C2_Witness ==
  /\ StreamFinished
  /\ frames[Len(frames)].error = "StoreError"
  /\ GeneratorDone
  /\ failed_at # None /\ failed_at[1] >= 2

(* the events yielded after the backend call raised *)
EventsAfterFailure == SubSeq(events, failed_at[1] + 1, Len(events))

(* C3 (as claimed): after the backend call raised, the generator emits the
   fallback text as a word-split sequence of Content events, one per word,
   followed by exactly one Done event, and no Error event. *)
C3_FallbackWordSplitAfterFailure ==
  (failed_at # None /\ GeneratorDone) =>
    /\ EventsAfterFailure = WordEvents(FallbackText)
    /\ FramesOfType({"error"}) \subseteq {i \in 1..Len(frames) : frames[i].error = "StoreError"}

(* C3 (amended): after the backend call raised, before or after fragments
   were emitted, the generator emits the complete fallback text as one
   single Content event, followed by exactly one Done event, and no Error
   event for this failure (the generator does not raise; the only error
   frame possible is that of a failed save).  A run the caller abandons
   stops where it was abandoned. *)
C3_FallbackSingleContentAfterFailure ==
  failed_at # None =>
    /\ gen_pc \in {"in_except", "after_done", "returned", "closed"}
    /\ EventsAfterFailure # <<>>
    /\ EventsAfterFailure[1] = Event("content", <<>>, FallbackText)
    /\ gen_pc = "in_except" => Len(EventsAfterFailure) = 1
    /\ gen_pc \in {"after_done", "returned"} =>
         EventsAfterFailure = <<Event("content", <<>>, FallbackText),
                                Event("done", <<>>, <<>>)>>
    /\ gen_pc = "closed" =>
         \/ Len(EventsAfterFailure) = 1
         \/ EventsAfterFailure = <<Event("content", <<>>, FallbackText),
                                   Event("done", <<>>, <<>>)>>
    /\ FramesOfType({"error"}) \subseteq {i \in 1..Len(frames) : frames[i].error = "StoreError"}

(* the backend raised after a fragment, with matches, and the run ended *)
C3_Witness ==
  /\ failed_at # None /\ failed_at[1] >= 2
  /\ gen_pc = "returned"
  /\ events[1].context # <<>>
  /\ frames[Len(frames)].type = "done"

(* C4 (as claimed): in every run that ends with Done the Content fragments,
   concatenated in emission order, are exactly the full answer: the
   backend's complete output, or the complete fallback text for the ranked
   matches (when there is no backend or its call raised, after k >= 1
   fragments included). *)
C4_ConcatenationIsFullAnswer ==
  GeneratorDone =>
    StreamedText = (IF openai_client /\ failed_at = None THEN backend_output
                    ELSE FallbackText)

(* C5: without a backend, the Content fragments of a run that ends with
   Done, concatenated in emission order, are the text that the non-streaming
   generate_chat_response returns for the same query and documents. *)
C5_FallbackStreamEqualsAnswer ==
  (~openai_client /\ GeneratorDone) =>
    LET answer == generate_chat_response(FALSE, user_message, knowledge_base, <<>>,
                                         [kind |-> "api_error", content |-> <<>>],
                                         DEFAULT_TOP_K)
    IN  /\ answer.status = "ok"
        /\ StreamedText = answer.value.response
        /\ events[1].context = answer.value.context

(* a finished fallback run whose text has two consecutive spaces (an empty
   word) and a word that contains a newline *)
C5_Witness ==
  /\ ~openai_client /\ gen_pc = "returned"
  /\ \E i \in 2..Len(events) : events[i].content = <<" ">>
  /\ \E i \in 2..Len(events) : \E k \in 2..(Len(events[i].content) - 1) :
        events[i].content[k] = "\n" /\ events[i].content[k + 1] # "\n"
                                    /\ events[i].content[k - 1] # "\n"
  /\ Len(events[1].context) = 2


(***************************************************************************)
(* C11: zero norms                                                         *)
(***************************************************************************)
CosineDone == cosine_call.op = "cosine"

IsZeroVector(v) == \A i \in 1..Len(v) : v[i] = 0

(* the input documents whose embedding is all zeros (and not empty) *)
RankZeroDocIds ==
  {rank_call.knowledge_base[i].id : i \in
     {j \in 1..Len(rank_call.knowledge_base) :
        /\ HasEmbedding(rank_call.knowledge_base[j])
        /\ IsZeroVector(rank_call.knowledge_base[j].embedding[1])}}

(* C11: cosine_similarity raises no division error on any two vectors, and on
   two vectors of one dimensionality of which at least one has zero norm it
   returns exactly 0.0; and retrieve_relevant_context returns a document whose
   embedding is all zeros only if the threshold is at most 0. *)
C11_ZeroNormScoresZero ==
  /\ CosineDone =>
        /\ cosine_call.result.status = "raise" =>
              cosine_call.result.error = ValueError
        /\ ( /\ Len(cosine_call.vec1) = Len(cosine_call.vec2)
             /\ IsZeroVector(cosine_call.vec1) \/ IsZeroVector(cosine_call.vec2) )
           => cosine_call.result = Ok(<<0, 1>>)
  /\ RankOk =>
        (RankReturnedIds \cap RankZeroDocIds # {}
           => RatGE(<<0, 1>>, rank_call.threshold))

(* a ranking at threshold 0 that returns a document with an all-zero
   embedding and leaves another document out *)
C11_Witness ==
  /\ RankOk
  /\ rank_call.threshold = <<0, 1>>
  /\ RankReturnedIds \cap RankZeroDocIds # {}
  /\ Len(RankResult) < Len(rank_call.knowledge_base)


(***************************************************************************)
(* Properties of the generation request (checked under SpecAssemble).      *)
(***************************************************************************)
MessagesBuilt == messages_call.op = "build"
BuiltMessages == messages_call.result
BuiltHistoryLen == Len(messages_call.chat_history)
BuiltWindow == Min(5, BuiltHistoryLen)

(* C12: the request of _build_messages is one system message, then the last
   min(5, n) of the n history turns as user/assistant pairs, oldest first,
   then one final user message; 2 * min(5, n) + 2 messages in all, so exactly
   2 when there is no history. *)
C12_RequestShape ==
  MessagesBuilt =>
    /\ Len(BuiltMessages) = 2 * BuiltWindow + 2
    /\ BuiltMessages[1].role = "system"
    /\ Cardinality({i \in 1..Len(BuiltMessages) : BuiltMessages[i].role = "system"}) = 1
    /\ \A j \in 1..BuiltWindow :
         LET turn == messages_call.chat_history[BuiltHistoryLen - BuiltWindow + j]
         IN  /\ BuiltMessages[2 * j] = [role |-> "user", content |-> turn.user_message]
             /\ BuiltMessages[2 * j + 1] =
                  [role |-> "assistant", content |-> turn.bot_response]
    /\ BuiltMessages[Len(BuiltMessages)].role = "user"
    /\ BuiltHistoryLen = 0 => Len(BuiltMessages) = 2

(* a request built on more than five turns of history *)
C12_Witness ==
  /\ MessagesBuilt
  /\ BuiltHistoryLen > 5
  /\ Len(BuiltMessages) = 12
  /\ BuiltMessages[2].content = messages_call.chat_history[BuiltHistoryLen - 4].user_message

BuiltBody == BuiltMessages[Len(BuiltMessages)].content
C13_Prefix == <<"Context", " ", "from", " ", "knowledge", " ", "base:", "\n", "\n">>
C13_Separator == <<"\n", "\n", "---", "\n", "\n", "User", " ", "question:", " ">>

(* the labeled block of the i-th match: its title in brackets, a line break,
   its content *)
C13_Block(i) ==
  <<"[">> \o messages_call.context[i].title \o <<"]", "\n">>
  \o messages_call.context[i].content

(* where the i-th block starts in the body (0-based), the blocks being two
   line breaks apart *)
RECURSIVE C13_Offset(_)
C13_Offset(i) ==
  IF i = 1 THEN Len(C13_Prefix)
  ELSE C13_Offset(i - 1) + Len(C13_Block(i - 1)) + 2

(* C13: the body of the final user message is the query verbatim when there
   are no matches; with matches it is one labeled block per match in rank
   order, the blocks a blank line apart, then the separator and the literal
   query. *)
C13_FinalUserBody ==
  MessagesBuilt =>
    IF messages_call.context = <<>>
    THEN BuiltBody = <<messages_call.query>>
    ELSE LET n == Len(messages_call.context)
             blocks_end == C13_Offset(n) + Len(C13_Block(n))
         IN  /\ SubSeq(BuiltBody, 1, Len(C13_Prefix)) = C13_Prefix
             /\ \A i \in 1..n :
                  SubSeq(BuiltBody, C13_Offset(i) + 1,
                         C13_Offset(i) + Len(C13_Block(i))) = C13_Block(i)
             /\ \A i \in 2..n :
                  SubSeq(BuiltBody, C13_Offset(i) - 1, C13_Offset(i)) = <<"\n", "\n">>
             /\ SubSeq(BuiltBody, blocks_end + 1, Len(BuiltBody))
                  = C13_Separator \o <<messages_call.query>>

(* a request built on two matches of different titles *)
C13_Witness ==
  /\ MessagesBuilt
  /\ Len(messages_call.context) = 2
  /\ messages_call.context[1].title # messages_call.context[2].title
  /\ Len(BuiltBody) > Len(C13_Prefix) + Len(C13_Separator) + 1


(***************************************************************************)
(* Properties of the fallback text (checked under SpecAnswer).             *)
(***************************************************************************)
AnswerDone == answer_call.op = "answer"
AnswerFallback == AnswerOk /\ ~openai_client
AnswerText == answer_call.result.value.response
AnswerMatches == answer_call.result.value.context
AnswerQueryVector == generate_embedding(answer_call.query)

(* no document of the call can reach the default threshold 0.3 *)
AnswerAllBelowThreshold ==
  /\ AnswerQueryVector.status = "ok"
  /\ \A i \in 1..Len(answer_call.knowledge_base) :
       LET entry == answer_call.knowledge_base[i]
       IN  HasEmbedding(entry) =>
             /\ Len(entry.embedding[1]) = Len(AnswerQueryVector.value)
             /\ ~RatGE(cosine_similarity(AnswerQueryVector.value,
                                         entry.embedding[1]).value, <<3, 10>>)

(* C15: without a backend, an empty match list is answered with the one
   fixed nothing-found text, which contains "couldn't find", and with an
   empty match list, whatever the query and the history; an empty document
   list, documents without embeddings and documents that all score below the
   threshold each give that empty match list. *)
C15_NothingFoundMessage ==
  /\ (AnswerFallback /\ AnswerMatches = <<>>) =>
       /\ AnswerText = NOT_FOUND_TEXT
       /\ \E i \in 1..Len(AnswerText) :
            SubSeq(AnswerText, i, i + 2) = <<"couldn't", " ", "find">>
  /\ (AnswerDone /\ ~openai_client
        /\ (answer_call.knowledge_base = <<>> \/ AnswerAllBelowThreshold)) =>
       /\ AnswerOk
       /\ AnswerMatches = <<>>
       /\ AnswerText = NOT_FOUND_TEXT

(* a fallback answer with a history, on documents that are embedded and all
   score below the threshold *)
C15_Witness ==
  /\ AnswerFallback
  /\ AnswerMatches = <<>>
  /\ answer_call.chat_history # <<>>
  /\ \E i \in 1..Len(answer_call.knowledge_base) :
       HasEmbedding(answer_call.knowledge_base[i])
  /\ AnswerAllBelowThreshold

(* where the blocks of the fallback text start, and where the last one ends *)
FallbackBlockStarts ==
  SelectSeq([i \in 1..Len(AnswerText) |-> i], LAMBDA i : AnswerText[i] = "(doc)")
FallbackBlocksEnd == Len(AnswerText) - Len(RESPONSE_CLOSING)

FallbackBlock(i) ==
  SubSeq(AnswerText, FallbackBlockStarts[i],
         IF i < Len(FallbackBlockStarts) THEN FallbackBlockStarts[i + 1] - 1
         ELSE FallbackBlocksEnd)

(* the head of a match's block: the title, then the category if it has one *)
FallbackBlockHead(m) ==
  <<"(doc)", " ", "**">> \o m.title \o <<"**">>
  \o (IF m.category # <<>> THEN <<" ", "(">> \o m.category \o <<")">> ELSE <<>>)
  \o <<"\n">>

(* text shows at most the first 300 characters of content, with the ellipsis
   marker exactly when content is longer *)
ShowsFirst300(text, content) ==
  text = (IF Len(content) > 300 THEN SubSeq(content, 1, 300) \o <<"...">>
          ELSE content)

(* the fallback text is one block per match in rank order, each the head and
   the shown content, and then the closing note *)
FallbackBlocksShow(Shown(_)) ==
  /\ Len(FallbackBlockStarts) = Len(AnswerMatches)
  /\ \A i \in 1..Len(AnswerMatches) :
       LET block == FallbackBlock(i)
           head == FallbackBlockHead(AnswerMatches[i])
       IN  /\ SubSeq(block, 1, Len(head)) = head
           /\ SubSeq(block, Len(block) - 1, Len(block)) = <<"\n", "\n">>
           /\ ShowsFirst300(SubSeq(block, Len(head) + 1, Len(block) - 2),
                            Shown(AnswerMatches[i].content))
  /\ SubSeq(AnswerText, FallbackBlocksEnd + 1, Len(AnswerText)) = RESPONSE_CLOSING

RawContent(content) == content

(* C16 (as claimed): the fallback text for a non-empty match list has one
   block per match in rank order, each with the title, the category when
   present and at most the first 300 characters of the content, the ellipsis
   marker appended exactly when the content was cut, and ends with the
   closing note. *)
C16_BlocksShowContent ==
  (AnswerFallback /\ AnswerMatches # <<>>) => FallbackBlocksShow(RawContent)

(* C16 (amended): as claimed, the content being taken with its leading and
   trailing whitespace removed before it is measured and cut. *)
C16_BlocksShowStrippedContent ==
  (AnswerFallback /\ AnswerMatches # <<>>) => FallbackBlocksShow(Strip)

(* a fallback answer on two matches: one cut at 300 characters, one of
   exactly 300 characters between surrounding whitespace *)
C16_Witness ==
  /\ AnswerFallback
  /\ Len(AnswerMatches) = 2
  /\ \E i \in 1..2 : Len(Strip(AnswerMatches[i].content)) > 300
  /\ \E i \in 1..2 : /\ Len(Strip(AnswerMatches[i].content)) = 300
                     /\ Len(AnswerMatches[i].content) > 300


(***************************************************************************)
(* Properties of one streaming request (checked under SpecStream).         *)
(***************************************************************************)
(* the ranked matches of the request's query on the knowledge base it read *)
RequestMatches ==
  retrieve_relevant_context(user_message, knowledge_base,
                            DEFAULT_TOP_K, DEFAULT_THRESHOLD).value

DoneEmitted == \E i \in 1..Len(events) : events[i].type = "done"

(* C17: in one call of generate_chat_response_stream the matches are ranked
   at most once, and once before any request is built, any backend call is
   made or any event is emitted; the Context event, the first and only one,
   carries that list, and the same list is in the request built for the
   backend and in the fallback text, that of the except branch and that of
   the fallback mode. *)
C17_MatchesRankedOnce ==
  /\ retrievals <= 1
  /\ retrievals = 0 => (backend_calls = 0 /\ gen_messages = None /\ events = <<>>)
  /\ events # <<>> =>
       /\ retrievals = 1
       /\ events[1] = Event("context", RequestMatches, <<>>)
       /\ \A i \in 2..Len(events) : events[i].type # "context"
  /\ gen_messages # None =>
       gen_messages[1] = _build_messages(user_message, events[1].context, chat_history)
  /\ failed_at # None =>
       events[failed_at[1] + 1].content
         = _generate_simple_response(user_message, events[1].context)
  /\ (~openai_client /\ DoneEmitted) =>
       StreamedText = _generate_simple_response(user_message, events[1].context)

(* a backend run on two matches whose call raised after a fragment and that
   came to its end *)
C17_Witness ==
  /\ openai_client
  /\ gen_pc = "returned"
  /\ retrievals = 1
  /\ backend_calls = 1
  /\ Len(events[1].context) = 2
  /\ gen_messages # None
  /\ failed_at # None /\ failed_at[1] >= 2

(* C19: a streaming request saves at most one chat record, and only once
   the generator has emitted Done: the record holds the accumulated text;
   a stream that ends with an error frame, or that the caller abandons
   before Done, has saved none. *)
C19_SavedOnceAfterDone ==
  /\ Len(chat_history_db) <= 1
  /\ chat_history_db # <<>> =>
       /\ DoneEmitted
       /\ chat_history_db[1].session_id = session_id
       /\ chat_history_db[1].bot_response = StreamedText
       /\ chat_history_db[1].context_used = events[1].context
  /\ (frames # <<>> /\ frames[Len(frames)].type = "error") => chat_history_db = <<>>
  /\ (abandoned_at # None /\ ~DoneEmitted) => chat_history_db = <<>>

(* a stream abandoned after content frames and before Done *)
C19_Witness ==
  /\ abandoned_at # None
  /\ ~DoneEmitted
  /\ full_response # <<>>
  /\ Len(frames) >= 3
  /\ chat_history_db = <<>>

(* C20: once the caller has abandoned the stream, the generator has ended
   without a further event and generate() without a further frame: the
   events and the frames are those there were at the abandonment, so no
   fallback Content and no Done follow it, and no backend failure is
   recorded for it. *)
C20_NothingAfterAbandon ==
  abandoned_at # None =>
    /\ gen_pc = "closed"
    /\ handler_pc = "closed"
    /\ Len(events) = abandoned_at[1].events
    /\ Len(frames) = abandoned_at[1].frames
    /\ failed_at # None => failed_at[1] < abandoned_at[1].events

(* a stream abandoned while the generator was inside the try block, after a
   fragment of the backend *)
C20_Witness ==
  /\ abandoned_at # None
  /\ openai_client
  /\ failed_at = None
  /\ backend_calls = 1
  /\ events[Len(events)].type = "content"
  /\ backend_output # <<>>


(***************************************************************************)
(* Properties of the chat endpoints (checked under SpecChat).              *)
(***************************************************************************)
(* the turns the request's session had completed when the request came,
   oldest first *)
SessionTurns == SelectSeq(db_at_request, LAMBDA r : r.session_id = session_id)

(* the request holds, between its system message and its final user message,
   the last min(5, n) of the session's n turns as user/assistant pairs *)
RequestHoldsRecentTurns ==
  LET messages == gen_messages[1]
      n == Len(SessionTurns)
      m == Min(5, n)
  IN  /\ Len(messages) = 2 * m + 2
      /\ \A j \in 1..m :
           /\ messages[2 * j].content = SessionTurns[n - m + j].user_message
           /\ messages[2 * j + 1].content = SessionTurns[n - m + j].bot_response

(* C14: whatever the number n of turns a session has completed, more than
   10 included, the generation request that /api/chat or /api/chat/stream
   builds next for that session holds its most recent min(5, n) turns,
   oldest first. *)
C14_RecentTurnsInRequest ==
  gen_messages # None => RequestHoldsRecentTurns

(* the same for the sessions with at most 10 completed turns, where the
   limit of the read cuts nothing off *)
RecentTurnsInRequestUpToLimit ==
  (gen_messages # None /\ Len(SessionTurns) <= 10) => RequestHoldsRecentTurns

(* a request was built for a session of more than 10 turns *)
RequestAfterMoreThanLimit ==
  gen_messages # None /\ Len(SessionTurns) > 10

(* the request is the /api/chat request of a query that cannot be embedded,
   on a knowledge base that has documents *)
ChatEmbeddingFails ==
  /\ handler_pc = "idle"
  /\ handler_pc' = "responded"
  /\ knowledge_store # <<>>
  /\ generate_embedding(user_message').status = "raise"

(* C18: when embedding the query fails, generate_chat_response raises that
   failure (no response, no matches), the /api/chat request is answered
   with a failure result, saves no chat record, builds no generation request
   and makes no backend call. *)
C18_EmbeddingFailurePropagates ==
  [][ChatEmbeddingFails =>
       /\ generate_chat_response(openai_client, user_message', knowledge_store,
                                 chat_history', [kind |-> "text", content |-> <<"Sure">>],
                                 DEFAULT_TOP_K) = Raise(EmbeddingError)
       /\ http_response' = HttpJson(500, FALSE, <<>>, <<>>, EmbeddingError)
       /\ chat_history_db' = chat_history_db
       /\ gen_messages' = None
       /\ backend_calls' = 0]_vars

(* a failed /api/chat request with a backend, in a session with history *)
C18_Witness ==
  /\ handler_pc = "responded"
  /\ openai_client
  /\ generate_embedding(user_message).status = "raise"
  /\ chat_history # <<>>
  /\ http_response.status = 500
  /\ chat_history_db = db_at_request


(***************************************************************************)
(* Properties of the backend calls of a request (checked under SpecChat).  *)
(***************************************************************************)
(* C21: a request, /api/chat or /api/chat/stream, calls the backend's
   create() at most once, and not at all without a backend; once the call of
   a streaming request has failed, every later event is the fallback text
   or Done, so nothing of the backend follows. *)
C21_AtMostOneBackendCall ==
  /\ backend_calls <= 1
  /\ ~openai_client => backend_calls = 0
  /\ failed_at # None =>
       /\ backend_calls = 1
       /\ \A i \in (failed_at[1] + 1)..Len(events) :
            events[i] \in {Event("content", <<>>, FallbackText),
                           Event("done", <<>>, <<>>)}

(* a streaming request in a session with history whose call failed after a
   fragment and that came to its end *)
C21_Witness ==
  /\ handler_pc = "finished"
  /\ gen_pc = "returned"
  /\ db_at_request # <<>>
  /\ failed_at # None /\ failed_at[1] >= 2
  /\ backend_calls = 1
  /\ Len(events) = failed_at[1] + 2


(***************************************************************************)
(* Properties of the frames of a streaming request (checked under          *)
(* SpecStream).                                                            *)
(***************************************************************************)
(* the frame of an event: init for Context, content with the same fragment
   for Content, done for Done *)
FrameOfEvent(event) ==
  CASE event.type = "context" -> Frame("init", event.context, <<>>, "none")
    [] event.type = "content" -> Frame("content", <<>>, event.content, "none")
    [] event.type = "done" -> Frame("done", <<>>, <<>>, "none")

(* beyond the frames of the events there is at most one frame, the error
   frame of a generator that raised *)
FramesEndWithEvents ==
  /\ Len(frames) \in {Len(events), Len(events) + 1}
  /\ Len(frames) = Len(events) + 1 => frames[Len(frames)].type = "error"

(* C24 (as claimed): the frames are the events' frames, one per event and
   in emission order: the i-th frame is the init frame of the i-th event if
   that is Context, the content frame with the same fragment if it is
   Content, the done frame if it is Done. *)
C24_OneFramePerEvent ==
  /\ Len(frames) >= Len(events)
  /\ \A i \in 1..Len(events) : frames[i] = FrameOfEvent(events[i])

(* C24 (amended): the same, but that the frame of a Done event whose save
   failed is the error frame, sent in the place of the done frame; and the
   frames hold nothing else than one error frame of a generator that
   raised. *)
C24_OneFramePerEventUnlessSaveFails ==
  /\ FramesEndWithEvents
  /\ \A i \in 1..Len(events) :
       \/ frames[i] = FrameOfEvent(events[i])
       \/ /\ events[i].type = "done"
          /\ frames[i] = Frame("error", <<>>, <<>>, "StoreError")
          /\ chat_history_db = db_at_request

(* a backend run of four events or more that came to its end, frame by
   frame *)
C24_Witness ==
  /\ handler_pc = "finished"
  /\ gen_pc = "returned"
  /\ openai_client /\ failed_at = None
  /\ Len(events) >= 4
  /\ Len(frames) = Len(events)
  /\ frames[Len(frames)].type = "done"


(***************************************************************************)
(* The match lists of the two entry points (checked under SpecStream).     *)
(***************************************************************************)
(* C25: for the query, the documents and the top_k of a streaming request
   that has ranked its matches,
   generate_chat_response returns, whatever the backend does, as its second
   component the list the ranker returns, which is the list its response
   was generated with, and the Context event of the stream carries that
   same list; when the stream's retrieval raised, so does the answer's. *)
C25_StreamAndAnswerMatchesAgree ==
  handler_pc \in {"streaming", "finished", "closed"} /\ retrievals >= 1 =>
    \A backend \in BackendResults :
      LET answer == generate_chat_response(openai_client, user_message,
                        knowledge_base, chat_history, backend, DEFAULT_TOP_K)
          ranked == retrieve_relevant_context(user_message, knowledge_base,
                        DEFAULT_TOP_K, DEFAULT_THRESHOLD)
      IN  IF events = <<>>
          THEN answer.status = "raise" /\ ranked.status = "raise"
          ELSE /\ answer.status = "ok"
               /\ answer.value.context = ranked.value
               /\ answer.value.response =
                    generate_response_with_context(openai_client, user_message,
                        ranked.value, chat_history, backend)
               /\ events[1].type = "context"
               /\ events[1].context = answer.value.context

(* a backend-mode stream that has sent a Context event with two matches
   of different scores and has gone on to its content *)
C25_Witness ==
  /\ openai_client
  /\ Len(events) >= 2
  /\ Len(events[1].context) = 2
  /\ events[1].context[1].similarity # events[1].context[2].similarity
  /\ events[2].type = "content"


(***************************************************************************)
(* The inputs of a request (checked under SpecChat).                       *)
(***************************************************************************)
(* the fields of a match, and of a document *)
MatchFields == {"id", "title", "content", "category", "similarity"}
DocumentFields == {"id", "title", "content", "category", "embedding"}

(* the matches a request has returned or sent *)
ReturnedMatches ==
  {http_response.context_used[i] : i \in DOMAIN http_response.context_used}
    \cup UNION {{events[i].context[k] : k \in DOMAIN events[i].context} :
                  i \in DOMAIN events}

(* C26: a request leaves the query, the documents and the history turns it
   was given as they were (none modified, added or removed), the stored
   documents are left unchanged and the stored turns are only appended to;
   every match returned or sent is a record of its own, with a similarity
   and without the embedding, and so none of the input documents. *)
C26_InputsUnchanged ==
  /\ [](\A match \in ReturnedMatches :
          /\ DOMAIN match = MatchFields
          /\ \A i \in DOMAIN knowledge_base :
               /\ DOMAIN knowledge_base[i] = DocumentFields
               /\ DOMAIN match # DOMAIN knowledge_base[i])
  /\ [][/\ knowledge_store' = knowledge_store
        /\ Len(chat_history_db') >= Len(chat_history_db)
        /\ SubSeq(chat_history_db', 1, Len(chat_history_db)) = chat_history_db
        /\ handler_pc # "idle" =>
             /\ user_message' = user_message
             /\ knowledge_base' = knowledge_base
             /\ chat_history' = chat_history]_vars

(* a request with a document and a history turn that has sent or returned
   a match and saved its turn *)
C26_Witness ==
  /\ handler_pc \in {"finished", "responded"}
  /\ knowledge_base # <<>>
  /\ chat_history # <<>>
  /\ ReturnedMatches # {}
  /\ Len(chat_history_db) = Len(db_at_request) + 1


(***************************************************************************)
(* The sessions of the persisted turns (checked under SpecChat).           *)
(***************************************************************************)
(* C29 (as claimed): every persisted chat-history record carries a session
   id for which a session record exists, also after a request that supplied
   a session id the store had never seen. *)
C29_RecordsHaveSession ==
  \A k \in 1..Len(chat_history_db) : chat_history_db[k].session_id \in sessions


(***************************************************************************)
(* Properties of scrape_website (checked under SpecScrape).                *)
(***************************************************************************)
(* no URL was fetched twice *)
FetchedOnce ==
  \A i, j \in DOMAIN fetched : fetched[i][1] = fetched[j][1] => i = j

(* only the start URL was fetched, and once the call has returned with a
   max_depth of 0 or more it was fetched *)
FetchedStartOnly ==
  /\ \A i \in DOMAIN fetched : fetched[i] = <<scrape_call.url, 0>>
  /\ (scrape_pc = "returned" /\ scrape_call.max_depth >= 0) => Len(fetched) = 1

(* C30: a call of scrape_website on a finite site returns; it fetches no
   URL twice and none at a depth greater than max_depth, and when
   extract_links is false or max_depth is 0 it fetches the start URL and no
   other. *)
C30_ScrapeTerminatesWithinDepth ==
  /\ [](scrape_pc \in {"loop", "returned", "responded"} /\ scrape_call # NoCall =>
          /\ FetchedOnce
          /\ \A i \in DOMAIN fetched :
               fetched[i][2] >= 0 /\ fetched[i][2] <= scrape_call.max_depth
          /\ (~scrape_call.extract_links \/ scrape_call.max_depth = 0) =>
               FetchedStartOnly)
  /\ (scrape_pc = "loop") ~> (scrape_pc = "returned")

(* a returned call that followed links to depth 2 on a site where / and /a
   link to each other, fetched all three pages and met a visited URL on its
   list *)
C30_Witness ==
  /\ scrape_pc = "returned"
  /\ scrape_call.extract_links /\ scrape_call.max_depth = 2
  /\ "/a" \in scrape_call.site["/"] /\ "/" \in scrape_call.site["/a"]
  /\ Len(fetched) = 3
  /\ \E i \in DOMAIN fetched : fetched[i][2] = 2


(***************************************************************************)
(* Properties of the knowledge endpoints (checked under SpecKnowledge).    *)
(***************************************************************************)
StoredIds(store) == {store[i].id : i \in DOMAIN store}

(* the stored document of that id *)
StoredDoc(store, id) == store[CHOOSE i \in DOMAIN store : store[i].id = id]

(* each stored document carries the embedding of its stored content *)
EmbeddingsCurrent ==
  \A i \in DOMAIN knowledge_store :
    encode(knowledge_store[i].content) = Ok(knowledge_store[i].embedding[1])

(* C23: every stored document's embedding is the embedding of its current
   stored content, after any sequence of add, update and scraper-ingest
   requests; a request that changes a document's content replaces its
   embedding in the same step, and a request that leaves the content leaves
   the embedding. *)
C23_EmbeddingFollowsContent ==
  /\ []EmbeddingsCurrent
  /\ [][\A id \in StoredIds(knowledge_store) \cap StoredIds(knowledge_store') :
          LET old == StoredDoc(knowledge_store, id)
              new == StoredDoc(knowledge_store', id)
          IN  IF new.content # old.content
              THEN encode(new.content) = Ok(new.embedding[1])
              ELSE new.embedding = old.embedding]_vars

(* a document added as text whose content an update has replaced with the
   empty string, which its embedding has followed *)
C23_Witness ==
  /\ kb_call.op = "update" /\ kb_call.status = 200
  /\ \E i \in DOMAIN knowledge_store :
       /\ knowledge_store[i].id = kb_call.id
       /\ knowledge_store[i].content = <<>>
       /\ knowledge_store[i].embedding = Some(<<0, 0>>)
       /\ knowledge_store[i].title = <<"T">>


(* C28: the id that add_knowledge returns is new, and get_knowledge_by_id
   of it returns the entry with the title, content and category given; a
   stored entry stays, under its id, until a delete of that id, and keeps
   its title, content and category in every request but an update of that
   id; get_knowledge_by_id returns the stored entry of the id, or nothing
   if there is none; delete_knowledge returns true exactly when the entry
   existed, and no entry of that id exists afterwards, so that a get then
   finds nothing and a second delete returns false. *)
C28_KnowledgeRoundTrip ==
  /\ [](/\ StoredIds(knowledge_store) \subseteq 1..ids_issued
        /\ \A i, j \in DOMAIN knowledge_store :
             knowledge_store[i].id = knowledge_store[j].id => i = j
        /\ kb_call.op = "get" =>
             IF kb_call.id \in StoredIds(knowledge_store)
             THEN /\ kb_call.status = 200
                  /\ kb_call.knowledge = Some(StoredDoc(knowledge_store, kb_call.id))
             ELSE kb_call.status = 404 /\ kb_call.knowledge = None)
  /\ [][/\ (kb_call'.op = "add" /\ kb_call'.status = 201) =>
             /\ kb_call'.id \notin 1..ids_issued
             /\ kb_call'.id \in StoredIds(knowledge_store')
             /\ LET doc == StoredDoc(knowledge_store', kb_call'.id)
                IN  [title |-> doc.title, content |-> doc.content,
                     category |-> doc.category] = kb_call'.given[1]
        /\ \A id \in StoredIds(knowledge_store) :
             IF kb_call'.op = "delete" /\ kb_call'.id = id
             THEN kb_call'.status = 200 /\ id \notin StoredIds(knowledge_store')
             ELSE /\ id \in StoredIds(knowledge_store')
                  /\ ~(kb_call'.op = "update" /\ kb_call'.id = id) =>
                       StoredDoc(knowledge_store', id) = StoredDoc(knowledge_store, id)
        /\ (kb_call'.op = "delete" /\ kb_call'.id \notin StoredIds(knowledge_store)) =>
             kb_call'.status = 404 /\ knowledge_store' = knowledge_store]_vars

(* an id was added and deleted, and a second delete of it has found
   nothing, while another entry is stored *)
C28_Witness ==
  /\ kb_call.op = "delete" /\ kb_call.status = 404
  /\ kb_call.id \in 1..ids_issued
  /\ knowledge_store # <<>>


(***************************************************************************)
(* Properties of a server with two requests (checked under SpecService).   *)
(***************************************************************************)
(* the locals of the two requests *)
RequestLocals == {Locals, parked}

(* the request has come to its generation: the stream is past its context
   event, or the answer was computed *)
Generating(request) ==
  \/ request.gen_pc \in {"in_stream", "in_words", "in_except", "after_done", "returned"}
  \/ /\ request.handler_pc = "responded"
     /\ request.http_response.error \in {"none", "StoreError"}

(* C22: the client is present or absent as it was after construction, in
   every step of every request, a step in which the backend fails included;
   so each request that comes to its generation on a server with a client
   calls the backend, once, whatever happened to the requests before it,
   and on a server without a client none does. *)
C22_ModeFixedAtConstruction ==
  /\ [][openai_client' = openai_client]_vars
  /\ [](\A request \in RequestLocals :
          Generating(request) =>
            request.backend_calls = (IF openai_client THEN 1 ELSE 0))

(* a streaming request whose backend call failed has finished and saved its
   turn; the next request, which found that turn, has called the backend
   and streamed its output to the end *)
C22_Witness ==
  /\ openai_client
  /\ parked.handler_pc = "finished" /\ parked.failed_at # None
  /\ Len(db_at_request) = Len(parked.db_at_request) + 1
  /\ handler_pc = "finished" /\ gen_pc = "returned"
  /\ backend_calls = 1 /\ failed_at = None
  /\ backend_output # <<>>


(* the concatenation, in emission order, of the content of a request's events *)
ContentOf(request_events) ==
  Concat([i \in 1..Len(request_events) |-> request_events[i].content])

(* the record a request leaves in the chat history when its stream is done *)
PersistedOnDone ==
  chat_history_db'[Len(chat_history_db')]

(* C27: whatever the interleaving of the two requests, the step that handles
   the done event of a streaming request appends one record, which holds
   the request's session and message, the concatenation in emission order
   of the content events of that request alone and the matches of that
   request's own context event, and leaves the other request as it was;
   each request's response buffer is at all times the concatenation of its
   own content events. *)
C27_PersistedIsOwnStream ==
  /\ [](\A request \in RequestLocals :
          request.full_response = ContentOf(request.events))
  /\ [][(handler_pc = "streaming" /\ chat_history_db' # chat_history_db) =>
          /\ Len(chat_history_db') = Len(chat_history_db) + 1
          /\ SubSeq(chat_history_db', 1, Len(chat_history_db)) = chat_history_db
          /\ events'[Len(events')].type = "done"
          /\ PersistedOnDone.session_id = session_id
          /\ PersistedOnDone.user_message = QueryText(user_message)
          /\ PersistedOnDone.bot_response = ContentOf(events')
          /\ PersistedOnDone.context_used = events'[1].context
          /\ parked' = parked]_vars

(* two streaming requests on one session, both begun before either was
   saved, have both been saved, with different responses *)
C27_Witness ==
  /\ handler_pc = "finished" /\ parked.handler_pc = "finished"
  /\ session_id = parked.session_id
  /\ db_at_request = parked.db_at_request
  /\ Len(chat_history_db) = Len(db_at_request) + 2
  /\ full_response # <<>> /\ parked.full_response # <<>>
  /\ full_response # parked.full_response
  /\ chat_history_db[Len(chat_history_db)].bot_response = full_response
  /\ chat_history_db[Len(chat_history_db) - 1].bot_response = parked.full_response

=============================================================================
